---- MODULE Spec2Model ----
(***************************************************************************)
(* Verification model of the homehud voice assistant.                      *)
(*                                                                         *)
(* Part 1: the voice pipeline orchestrator (src/src/voice_pipeline.py):    *)
(* the thread started by start_voice_pipeline, running loop() and          *)
(* _handle_command(), together with the collaborators it drives (audio     *)
(* port, wake detector, VAD recorder, STT, router, TTS, telemetry).        *)
(* Each action is one step of the thread between two blocking calls; `pc`  *)
(* is the thread's position.  External calls may return or raise.          *)
(***************************************************************************)
EXTENDS Integers, Sequences, FiniteSets, TLC

(* ---------------- program constants ---------------- *)
MAX_FOLLOW_UPS == 10
BARGEIN_DEBOUNCE_CHUNKS == 15
max_errors == 3

(* ---------------- model bounds ---------------- *)
\* chunks a single VAD capture may consume before record_until_silence stops
MaxCaptureChunks == 2
\* chunks the barge-in monitor may read while playback is still going on
MaxMonitorChunks == 17
\* create_exchange calls that may raise between two wake detections
MaxCreateFailures == 1

VARIABLES
    config,              \* the config dict and optional collaborators
    running,             \* threading.Event shared with main()
    pc,                  \* position of the pipeline thread
    consecutive_errors,  \* loop(): retry counter
    wake_detected,       \* loop(): local flag
    session,             \* loop(): current telemetry Session (or none)
    exchange,            \* _handle_command(): current Exchange (or none)
    follow_ups,          \* loop(): follow-up counter
    expects_follow_up,   \* router.expects_follow_up
    playing,             \* audio.is_playing()
    streams,             \* chunk streams of audio.stream() holding the device
    bargein,             \* _handle_command(): local flag of the monitoring
    chunks_heard,        \* _handle_command(): local counter of the monitoring
    capChunks,           \* record_until_silence(): chunks consumed so far
    text,                \* _handle_command(): local, stt.transcribe's result
    \* ---- observation (history) variables, never read by the program ----
    cmds,                \* _handle_command calls since the last wake detection
    resetSinceWake,      \* wake.reset() called since the last wake detection
    failRun,             \* outer-loop failures since the last wake chunk
    streamFailRun,       \* audio.stream failures since the last wake chunk
    backoffs,            \* delays slept since the last wake chunk
    gaveUp,              \* loop left through the give-up branch
    raisedStage,         \* stage of the current command that raised
    saves,               \* save_session calls for the current session
    stopDuringCapture,   \* running was cleared while a capture was going on
    chunkAfterStop,      \* the last wake chunk was read after running cleared
    monRead,             \* chunks read from the current monitor stream
    bargeSeq,            \* calls made since a positive barge-in detection
    \* ---- the session in progress: faults, router detail, observations ----
    phase_raises,        \* Exchange.start_phase/end_phase of this command raise
    feature_expects,     \* router._last_feature.expects_follow_up
    ack_played,          \* a clip was played for the capture about to begin
    any_expected,        \* the router expected a follow-up since the wake
    \* ---- the components driven on their own (parts 2 to 4) ----
    router,              \* IntentRouter: its fields and the route in progress
    llm,                 \* BaseLLM: its history and configuration
    vad,                 \* VoiceActivityDetector.record_until_silence()
    store,               \* TelemetryStore: the rows of its three tables
    web,                 \* telemetry web handler: one GET /api/sessions
    reminder,            \* ReminderFeature: its file and its two threads
    media                \* MediaFeature: the pending disambiguation

progVars == <<config, running, pc, consecutive_errors, wake_detected, session,
              exchange, follow_ups, expects_follow_up, playing, streams,
              bargein, chunks_heard, capChunks, text>>
histVars == <<cmds, resetSinceWake, failRun, streamFailRun, backoffs, gaveUp,
              raisedStage, saves, stopDuringCapture, chunkAfterStop, monRead,
              bargeSeq>>
sessVars == <<phase_raises, feature_expects, ack_played, any_expected>>
pipeVars == <<progVars, histVars, sessVars>>
notPipe == <<router, llm, vad, store, web, reminder, media>>
notRouter == <<pipeVars, llm, vad, store, web, reminder, media>>
notLlm == <<pipeVars, router, vad, store, web, reminder, media>>
notVad == <<pipeVars, router, llm, store, web, reminder, media>>
notStore == <<pipeVars, router, llm, vad, web, reminder, media>>
notWeb == <<pipeVars, router, llm, vad, store, reminder, media>>
notReminder == <<pipeVars, router, llm, vad, store, web, media>>
notMedia == <<pipeVars, router, llm, vad, store, web, reminder>>
vars == <<pipeVars, notPipe>>

(* ---------------- data ---------------- *)
Phases == {"recording", "stt", "routing", "tts", "playback"}

\* config.get(...) values read at lines 41-48, and telemetry_store is not None
Configs == [vad_enabled : BOOLEAN, bargein_enabled : BOOLEAN,
            wake_feedback : BOOLEAN, telemetry : BOOLEAN]

NoSession == [present |-> FALSE, exchanges |-> <<>>, ended_at |-> FALSE]

\* Session(wake_model=...): telemetry/models.py
NewSession == [present |-> TRUE, exchanges |-> <<>>, ended_at |-> FALSE]

NoExchange == [present |-> FALSE, sequence |-> 0, is_follow_up |-> FALSE,
               used_vad |-> FALSE, had_bargein |-> FALSE, error |-> "None",
               transcription |-> FALSE, response_text |-> FALSE,
               routing_path |-> "None", matched_feature |-> "None",
               started |-> {}, ended |-> {}]

\* Session.create_exchange: the Exchange built for a session
NewExchange(s, fu) ==
    [present |-> TRUE, sequence |-> Len(s.exchanges), is_follow_up |-> fu,
     used_vad |-> FALSE, had_bargein |-> FALSE, error |-> "None",
     transcription |-> FALSE, response_text |-> FALSE,
     routing_path |-> "None", matched_feature |-> "None",
     started |-> {}, ended |-> {}]

\* Session.create_exchange: the session after the append.  The list keeps
\* the fields fixed at creation; the mutable fields of the newest exchange
\* live in `exchange`, which aliases the last element.
AppendExchange(s, fu) ==
    [s EXCEPT !.exchanges =
        Append(@, [sequence |-> Len(s.exchanges), is_follow_up |-> fu])]

\* Exchange.start_phase / end_phase inside try/except Exception: pass (a
\* no-op when there is no exchange, and when the call raises)
StartPhase(e, name) ==
    IF e.present /\ ~phase_raises
      THEN [e EXCEPT !.started = @ \cup {name}] ELSE e
EndPhase(e, name) ==
    IF e.present /\ ~phase_raises
      THEN [e EXCEPT !.ended = @ \cup {name}] ELSE e
SetError(e, msg) ==
    IF e.present THEN [e EXCEPT !.error = msg] ELSE e

Min(a, b) == IF a < b THEN a ELSE b

RECURSIVE Pow2(_)
Pow2(n) == IF n = 0 THEN 1 ELSE 2 * Pow2(n - 1)

\* line 300: backoff = min(2 ** consecutive_errors, 30)
Backoff_off(n) == Min(Pow2(n + 1), 30)
Backoff(n) == Min(Pow2(n), 30)

\* line 294: if consecutive_errors >= max_errors
GiveUp_gt(n) == n > max_errors
GiveUp(n) == n >= max_errors

\* line 278: if follow_ups >= MAX_FOLLOW_UPS
CapReached_gt(n) == n > MAX_FOLLOW_UPS
CapReached(n) == n >= MAX_FOLLOW_UPS

\* line 176: if chunks_heard <= BARGEIN_DEBOUNCE_CHUNKS: continue
InDebounce_lt(n) == n < BARGEIN_DEBOUNCE_CHUNKS
InDebounce(n) == n <= BARGEIN_DEBOUNCE_CHUNKS

\* line 255: if not running.is_set(): break
SeesStop_never(r) == FALSE
SeesStop(r) == ~r

\* leaving `for chunk in audio.stream()` (break, exhaustion or exception):
\* the generator is dropped and its finally block frees the device
LeaveWakeLoop_leak(s) == s
LeaveWakeLoop(s) == s \ {"wake"}

IsPrefix(s, t) == Len(s) <= Len(t) /\ SubSeq(t, 1, Len(s)) = s

Log(ev) == IF bargeSeq = <<>> THEN <<>> ELSE Append(bargeSeq, ev)

CapturePcs == {"capture"}

(* ---------------- the components at rest ---------------- *)
\* intent/router.py lines 29-42, IntentRouter.__init__: no feature matched
\* yet, no LLM follow-up signal.  feature_fu[f] is the expects_follow_up
\* property of feature f of the registry; rpc is the position in route();
\* the remaining fields observe the route in progress.
RouterIdle ==
    [recovery |-> FALSE, last_feature |-> 0, llm_expects_follow_up |-> FALSE,
     feature_fu |-> <<FALSE, FALSE>>, rpc |-> "idle",
     stages |-> <<>>, path |-> "none", recs |-> <<>>, matched |-> {},
     kind |-> "none", signal |-> FALSE, execute_raised |-> FALSE,
     speech |-> ""]

\* llm/base.py lines 20-24, BaseLLM.__init__ with the default configuration
\* (llm_max_history 10, llm_history_ttl 300): an empty history.  `now` is
\* time.monotonic(); the remaining fields observe the last call.
LlmIdle ==
    [max_history |-> 10, history_ttl |-> 300, history |-> <<>>, now |-> 0,
     calls |-> 0, last_op |-> "none", before |-> <<>>]

\* utils/vad.py: no recording in progress.  Times are whole ticks of
\* time.monotonic(); silence_start = -1 stands for None.
VadIdle ==
    [vpc |-> "idle", silence_duration |-> 0, min_duration |-> 0,
     max_duration |-> 0, speech_chunks_required |-> 0, now |-> 0,
     start |-> 0, chunks |-> <<>>, speech_chunks |-> 0,
     speech_started |-> FALSE, silence_start |-> -1, stop |-> "none",
     result |-> <<>>]

\* telemetry/store.py lines 75-86, TelemetryStore.__init__: three empty
\* tables.  A sessions row is [id, started_at], an exchanges row is
\* [id, session_id], an llm_calls row is [id, exchange_id]; the remaining
\* fields observe the last save_session call.
StoreIdle ==
    [sessions |-> {}, exchanges |-> {}, llm_calls |-> {}, next_id |-> 1,
     saved |-> 0, last_op |-> "none", total |-> 0, before |-> {},
     before_exchanges |-> {}, before_llm_calls |-> {}, pruned |-> {}]

\* telemetry/web.py: no request handled yet
WebIdle ==
    [wpc |-> "idle", limit_given |-> FALSE, limit_param |-> 0,
     offset_given |-> FALSE, offset_param |-> 0, total |-> 0,
     limit |-> 0, offset |-> 0, returned |-> 0]

\* features/reminder.py lines 139-152, ReminderFeature.__init__: the file
\* as it is found, both threads between two operations.  A stored
\* reminder is [id, due]; cpc and ppc are the positions of the checker
\* thread and of the pipeline thread; the remaining fields are the locals
\* of the operation in progress and what was observed so far.
ReminderIdle ==
    [file |-> {}, now |-> 1, used |-> {}, ops |-> 0,
     cpc |-> "idle", c_now |-> 0, c_items |-> {}, c_due |-> {},
     c_remaining |-> {},
     ppc |-> "idle", p_items |-> {}, p_arg |-> [id |-> 0, due |-> 0],
     added |-> {}, removed |-> {}, fired |-> <<>>, raised |-> {},
     raced |-> FALSE]

\* features/media.py, MediaFeature.__init__: no disambiguation pending
MediaIdle ==
    [has_radarr |-> TRUE, has_sonarr |-> TRUE, pending |-> FALSE,
     results |-> <<>>, index |-> 0, phase |-> "none", timestamp |-> 0,
     now |-> 0, lib |-> {}, ops |-> 0, last |-> "init", presented |-> {},
     adds |-> <<>>]

(* ---------------- initial state ---------------- *)
PipeInit ==
    /\ config \in Configs
    /\ running = TRUE
    /\ pc = "loop_top"
    /\ consecutive_errors = 0
    /\ wake_detected = FALSE
    /\ session = NoSession
    /\ exchange = NoExchange
    /\ follow_ups = 0
    /\ expects_follow_up = FALSE
    /\ playing = FALSE
    /\ streams = {}
    /\ bargein = FALSE
    /\ chunks_heard = 0
    /\ capChunks = 0
    /\ text = "unset"
    /\ cmds = 0
    /\ resetSinceWake = TRUE
    /\ failRun = 0
    /\ streamFailRun = 0
    /\ backoffs = <<>>
    /\ gaveUp = FALSE
    /\ raisedStage = "none"
    /\ saves = 0
    /\ stopDuringCapture = FALSE
    /\ chunkAfterStop = FALSE
    /\ monRead = 0
    /\ bargeSeq = <<>>
    /\ phase_raises = FALSE
    /\ feature_expects = FALSE
    /\ ack_played = FALSE
    /\ any_expected = FALSE

\* the pipeline before its first step, with every option off: the state
\* the pipeline is held in while a component is driven on its own
PipeIdle ==
    /\ PipeInit
    /\ config = [vad_enabled |-> FALSE, bargein_enabled |-> FALSE,
                 wake_feedback |-> FALSE, telemetry |-> FALSE]

Init ==
    /\ PipeInit
    /\ router = RouterIdle
    /\ llm = LlmIdle
    /\ vad = VadIdle
    /\ store = StoreIdle
    /\ web = WebIdle
    /\ reminder = ReminderIdle
    /\ media = MediaIdle


(* ---------------- loop(): exception handler ---------------- *)
\* lines 292-305: except Exception around the body of the outer loop.
\* The sleep of the retry branch is part of the step.
OuterExcept ==
    LET n == consecutive_errors + 1 IN
    /\ consecutive_errors' = n
    /\ failRun' = failRun + 1
    /\ IF GiveUp(n)
         THEN /\ pc' = "stopped"
              /\ gaveUp' = TRUE
              /\ backoffs' = backoffs
         ELSE /\ pc' = "loop_top"
              /\ gaveUp' = gaveUp
              /\ backoffs' = Append(backoffs, Backoff(n))
    /\ text' = "unset"

(* ---------------- environment ---------------- *)
\* main.py: running.clear() on a signal or at shutdown
Stop ==
    /\ running
    /\ running' = FALSE
    /\ stopDuringCapture' = (pc \in CapturePcs)
    /\ UNCHANGED <<config, pc, consecutive_errors, wake_detected, session,
                   exchange, follow_ups, expects_follow_up, playing, streams,
                   bargein, chunks_heard, capChunks>>
    /\ UNCHANGED <<cmds, resetSinceWake, failRun, streamFailRun, backoffs,
                   gaveUp, raisedStage, saves, chunkAfterStop, monRead,
                   bargeSeq>>
    /\ UNCHANGED text
    /\ UNCHANGED sessVars
    /\ UNCHANGED notPipe

\* the playback started by play_streamed runs out on its own
PlaybackEnds ==
    /\ playing
    /\ playing' = FALSE
    /\ UNCHANGED <<config, running, pc, consecutive_errors, wake_detected,
                   session, exchange, follow_ups, expects_follow_up, streams,
                   bargein, chunks_heard, capChunks>>
    /\ UNCHANGED histVars
    /\ UNCHANGED text
    /\ UNCHANGED sessVars
    /\ UNCHANGED notPipe

(* ---------------- loop(): LISTENING ---------------- *)
\* line 250-253: while running.is_set(); wake_detected = False;
\* audio.stream() builds the (not yet started) generator
LoopTop ==
    /\ pc = "loop_top"
    /\ IF running
         THEN pc' = "wake_next" /\ wake_detected' = FALSE
         ELSE pc' = "stopped" /\ UNCHANGED wake_detected
    /\ bargeSeq' = <<>>
    /\ UNCHANGED <<config, running, consecutive_errors, session, exchange,
                   follow_ups, expects_follow_up, playing, streams, bargein,
                   chunks_heard, capChunks>>
    /\ UNCHANGED <<cmds, resetSinceWake, failRun, streamFailRun, backoffs,
                   gaveUp, raisedStage, saves, stopDuringCapture,
                   chunkAfterStop, monRead>>
    /\ UNCHANGED text
    /\ UNCHANGED sessVars
    /\ UNCHANGED notPipe

\* line 254: consecutive_errors = 0
ResetOnChunk_keep(n) == n
ResetOnChunk(n) == 0

\* lines 253-254: the stream delivers a chunk; consecutive_errors = 0
WakeChunk ==
    /\ pc = "wake_next"
    /\ streams' = streams \cup {"wake"}
    /\ consecutive_errors' = ResetOnChunk(consecutive_errors)
    /\ pc' = "wake_running"
    /\ failRun' = 0
    /\ streamFailRun' = 0
    /\ backoffs' = <<>>
    /\ chunkAfterStop' = ~running
    /\ UNCHANGED <<config, running, wake_detected, session, exchange,
                   follow_ups, expects_follow_up, playing, bargein,
                   chunks_heard, capChunks>>
    /\ UNCHANGED <<cmds, resetSinceWake, gaveUp, raisedStage, saves,
                   stopDuringCapture, monRead, bargeSeq>>
    /\ UNCHANGED text
    /\ UNCHANGED sessVars
    /\ UNCHANGED notPipe

\* line 253: audio.stream raises (device unavailable) instead of a chunk
WakeStreamFails ==
    /\ pc = "wake_next"
    /\ streams' = LeaveWakeLoop(streams)
    /\ streamFailRun' = streamFailRun + 1
    /\ OuterExcept
    /\ UNCHANGED <<config, running, wake_detected, session, exchange,
                   follow_ups, expects_follow_up, playing, bargein,
                   chunks_heard, capChunks>>
    /\ UNCHANGED <<cmds, resetSinceWake, raisedStage, saves,
                   stopDuringCapture, chunkAfterStop, monRead, bargeSeq>>
    /\ UNCHANGED sessVars
    /\ UNCHANGED notPipe

\* lines 255-256 (and 260 with wake_detected false): if not running: break
WakeRunning ==
    /\ pc = "wake_running"
    /\ IF SeesStop(running)
         THEN pc' = "loop_top" /\ streams' = LeaveWakeLoop(streams)
         ELSE pc' = "wake_detect" /\ UNCHANGED streams
    /\ UNCHANGED <<config, running, consecutive_errors, wake_detected,
                   session, exchange, follow_ups, expects_follow_up, playing,
                   bargein, chunks_heard, capChunks>>
    /\ UNCHANGED histVars
    /\ UNCHANGED text
    /\ UNCHANGED sessVars
    /\ UNCHANGED notPipe

\* lines 257-268: wake.detect(chunk); on a hit break out of the stream loop
\* and create the telemetry session; when Session(...) raises the failure
\* is logged and the session stays None
WakeDetect ==
    /\ pc = "wake_detect"
    /\ \E hit \in BOOLEAN :
         IF hit
           THEN /\ wake_detected' = TRUE
                /\ streams' = LeaveWakeLoop(streams)
                /\ session' \in (IF config.telemetry
                                   THEN {NewSession, NoSession}
                                   ELSE {NoSession})
                /\ pc' = "ack"
                /\ saves' = 0
                /\ cmds' = 0
                /\ resetSinceWake' = FALSE
                /\ any_expected' = FALSE
           ELSE /\ pc' = "wake_next"
                /\ UNCHANGED <<wake_detected, streams, session, saves, cmds,
                               resetSinceWake, any_expected>>
    /\ UNCHANGED <<config, running, consecutive_errors, exchange, follow_ups,
                   expects_follow_up, playing, bargein, chunks_heard,
                   capChunks>>
    /\ UNCHANGED <<failRun, streamFailRun, backoffs, gaveUp, raisedStage,
                   stopDuringCapture, chunkAfterStop, monRead, bargeSeq>>
    /\ UNCHANGED text
    /\ UNCHANGED <<phase_raises, feature_expects, ack_played>>
    /\ UNCHANGED notPipe

\* line 257: wake.detect raises
WakeDetectFails ==
    /\ pc = "wake_detect"
    /\ streams' = LeaveWakeLoop(streams)
    /\ OuterExcept
    /\ UNCHANGED <<config, running, wake_detected, session, exchange,
                   follow_ups, expects_follow_up, playing, bargein,
                   chunks_heard, capChunks>>
    /\ UNCHANGED <<cmds, resetSinceWake, streamFailRun, raisedStage, saves,
                   stopDuringCapture, chunkAfterStop, monRead, bargeSeq>>
    /\ UNCHANGED sessVars
    /\ UNCHANGED notPipe

\* lines 269-275: acknowledgement clip, then follow_ups = 0
Ack ==
    /\ pc = "ack"
    /\ ack_played' = config.wake_feedback
    /\ follow_ups' = 0
    /\ pc' = "cmd_start"
    /\ UNCHANGED <<config, running, consecutive_errors, wake_detected,
                   session, exchange, expects_follow_up, playing, streams,
                   bargein, chunks_heard, capChunks>>
    /\ UNCHANGED histVars
    /\ UNCHANGED text
    /\ UNCHANGED <<phase_raises, feature_expects, any_expected>>
    /\ UNCHANGED notPipe

\* line 270: audio.play(wake_prompts.pick()) raises
AckFails ==
    /\ pc = "ack"
    /\ config.wake_feedback
    /\ OuterExcept
    /\ UNCHANGED <<config, running, wake_detected, session, exchange,
                   follow_ups, expects_follow_up, playing, streams, bargein,
                   chunks_heard, capChunks>>
    /\ UNCHANGED <<cmds, resetSinceWake, streamFailRun, raisedStage, saves,
                   stopDuringCapture, chunkAfterStop, monRead, bargeSeq>>
    /\ UNCHANGED sessVars
    /\ UNCHANGED notPipe


(* ---------------- _handle_command(): capture and STT ---------------- *)
\* line 276 (the call) and lines 62-75: create the exchange, start
\* recording.  When create_exchange raises, the failure is logged and the
\* command goes on without an exchange (cmds - Len(session.exchanges) of
\* the calls since the wake detection raised); `raises` is whether the
\* phase calls on the exchange of this command raise.
CmdStart ==
    /\ pc = "cmd_start"
    /\ \E created \in (IF session.present THEN BOOLEAN ELSE {FALSE}),
          raises \in BOOLEAN :
         LET fu == follow_ups > 0
             e == [NewExchange(session, fu) EXCEPT
                     !.used_vad = config.vad_enabled]
         IN
         /\ raises => created
         /\ \/ created
            \/ ~session.present
            \/ cmds - Len(session.exchanges) < MaxCreateFailures
         /\ phase_raises' = raises
         /\ session' = IF created THEN AppendExchange(session, fu)
                       ELSE session
         /\ exchange' = IF ~created THEN NoExchange
                         ELSE IF raises THEN e
                         ELSE [e EXCEPT !.started = {"recording"}]
    /\ ack_played' = FALSE
    /\ capChunks' = 0
    /\ pc' = "capture"
    /\ cmds' = cmds + 1
    /\ raisedStage' = "none"
    /\ bargeSeq' = <<>>
    /\ UNCHANGED <<config, running, consecutive_errors, wake_detected,
                   follow_ups, expects_follow_up, playing, streams, bargein,
                   chunks_heard>>
    /\ UNCHANGED <<resetSinceWake, failRun, streamFailRun, backoffs, gaveUp,
                   saves, stopDuringCapture, chunkAfterStop, monRead>>
    /\ UNCHANGED text
    /\ UNCHANGED <<feature_expects, any_expected>>
    /\ UNCHANGED notPipe

\* line 77, vad.py line 53: record_until_silence reads one more chunk
CaptureChunk ==
    /\ pc = "capture"
    /\ config.vad_enabled
    /\ capChunks < MaxCaptureChunks
    /\ capChunks' = capChunks + 1
    /\ streams' = streams \cup {"capture"}
    /\ UNCHANGED <<config, running, pc, consecutive_errors, wake_detected,
                   session, exchange, follow_ups, expects_follow_up, playing,
                   bargein, chunks_heard>>
    /\ UNCHANGED histVars
    /\ UNCHANGED text
    /\ UNCHANGED sessVars
    /\ UNCHANGED notPipe

\* lines 76-91: the capture returns (vad.py lines 58-60, 78-85: a break on
\* some chunk, then finally stream.close(); or audio.record returns);
\* end of the recording phase, start of the stt phase
CaptureDone ==
    /\ pc = "capture"
    /\ config.vad_enabled => capChunks >= 1
    /\ streams' = streams \ {"capture"}
    /\ exchange' = StartPhase(EndPhase(exchange, "recording"), "stt")
    /\ capChunks' = 0
    /\ pc' = "stt"
    /\ UNCHANGED <<config, running, consecutive_errors, wake_detected,
                   session, follow_ups, expects_follow_up, playing, bargein,
                   chunks_heard>>
    /\ UNCHANGED histVars
    /\ UNCHANGED text
    /\ UNCHANGED sessVars
    /\ UNCHANGED notPipe

\* lines 77/79: the capture stream or audio.record raises; vad.py line 85
\* closes the stream; nothing in _handle_command catches it
CaptureFails ==
    /\ pc = "capture"
    /\ streams' = streams \ {"capture"}
    /\ capChunks' = 0
    /\ raisedStage' = "recording"
    /\ OuterExcept
    /\ UNCHANGED <<config, running, wake_detected, session, exchange,
                   follow_ups, expects_follow_up, playing, bargein,
                   chunks_heard>>
    /\ UNCHANGED <<cmds, resetSinceWake, streamFailRun, saves,
                   stopDuringCapture, chunkAfterStop, monRead, bargeSeq>>
    /\ UNCHANGED sessVars
    /\ UNCHANGED notPipe

SetTranscription(e) ==
    IF e.present /\ ~phase_raises
      THEN [e EXCEPT !.transcription = TRUE] ELSE e
SetResponse(e) ==
    IF e.present /\ ~phase_raises
      THEN [e EXCEPT !.response_text = TRUE] ELSE e
SetBargein(e, b) ==
    IF e.present /\ ~phase_raises
      THEN [e EXCEPT !.had_bargein = b] ELSE e

\* what stt.transcribe may return: nothing, the empty string, whitespace
\* only, or words
Texts == {"None", "", " ", "turn on the lights"}

\* line 101: if not text or not text.strip()
IsBlank_nostrip(t) == t \in {"None", ""}
IsBlank(t) == t \in {"None", "", " "}

\* lines 92-110: stt.transcribe returns; a blank text returns False.  The
\* local `text` is kept until the loop has acted on the return value.
Stt ==
    /\ pc = "stt"
    /\ \E t \in Texts :
         LET e == SetTranscription(EndPhase(exchange, "stt")) IN
         /\ text' = t
         /\ IF IsBlank(t)
              THEN exchange' = e /\ pc' = "ret_false"
              ELSE exchange' = StartPhase(e, "routing") /\ pc' = "route"
    /\ UNCHANGED <<config, running, consecutive_errors, wake_detected,
                   session, follow_ups, expects_follow_up, playing, streams,
                   bargein, chunks_heard, capChunks>>
    /\ UNCHANGED histVars
    /\ UNCHANGED sessVars
    /\ UNCHANGED notPipe

\* line 92: stt.transcribe raises; nothing in _handle_command catches it
SttFails ==
    /\ pc = "stt"
    /\ raisedStage' = "stt"
    /\ OuterExcept
    /\ UNCHANGED <<config, running, wake_detected, session, exchange,
                   follow_ups, expects_follow_up, playing, streams, bargein,
                   chunks_heard, capChunks>>
    /\ UNCHANGED <<cmds, resetSinceWake, streamFailRun, saves,
                   stopDuringCapture, chunkAfterStop, monRead, bargeSeq>>
    /\ UNCHANGED sessVars
    /\ UNCHANGED notPipe

(* ---------------- _handle_command(): routing and TTS ---------------- *)
\* router._last_route_info as the pipeline finds it after route(): the
\* router (intent/router.py, __init__ and route) never assigns the
\* attribute, so it is absent
LastRouteInfo ==
    [present |-> FALSE, path |-> "None", matched_feature |-> "None"]

\* lines 112-136: copy the routing metadata inside try/except Exception:
\* pass.  Reading an absent attribute raises AttributeError, which the
\* except swallows after end_phase and response_text took effect.
CopyRouteInfo(e, info) ==
    IF e.present /\ info.present /\ ~phase_raises
      THEN [e EXCEPT !.routing_path = info.path,
                     !.matched_feature = info.matched_feature]
      ELSE e

\* lines 111-148: router.route returns; the router's follow-up state is
\* whatever the route left; start of the tts phase
Route ==
    /\ pc = "route"
    /\ \E feature_fu \in BOOLEAN, llm_fu \in BOOLEAN :
         /\ feature_expects' = feature_fu
         /\ expects_follow_up' = (feature_fu \/ llm_fu)
         /\ any_expected' = (any_expected \/ feature_fu \/ llm_fu)
    /\ exchange' = StartPhase(CopyRouteInfo(
                        SetResponse(EndPhase(exchange, "routing")),
                        LastRouteInfo), "tts")
    /\ pc' = "tts"
    /\ UNCHANGED <<config, running, consecutive_errors, wake_detected,
                   session, follow_ups, playing, streams, bargein,
                   chunks_heard, capChunks>>
    /\ UNCHANGED histVars
    /\ UNCHANGED text
    /\ UNCHANGED <<phase_raises, ack_played>>
    /\ UNCHANGED notPipe

\* lines 236-243: router.route raises
RouteFails ==
    /\ pc = "route"
    /\ exchange' = SetError(exchange, "Routing error")
    /\ raisedStage' = "routing"
    /\ pc' = "ret_false"
    /\ UNCHANGED <<config, running, consecutive_errors, wake_detected,
                   session, follow_ups, expects_follow_up, playing, streams,
                   bargein, chunks_heard, capChunks>>
    /\ UNCHANGED <<cmds, resetSinceWake, failRun, streamFailRun, backoffs,
                   gaveUp, saves, stopDuringCapture, chunkAfterStop, monRead,
                   bargeSeq>>
    /\ UNCHANGED text
    /\ UNCHANGED sessVars
    /\ UNCHANGED notPipe

\* lines 149-161 / 205-217: synthesis returns; start of the playback phase
Tts ==
    /\ pc = "tts"
    /\ exchange' = StartPhase(EndPhase(exchange, "tts"), "playback")
    /\ pc' = IF config.bargein_enabled THEN "play_streamed" ELSE "play"
    /\ UNCHANGED <<config, running, consecutive_errors, wake_detected,
                   session, follow_ups, expects_follow_up, playing, streams,
                   bargein, chunks_heard, capChunks>>
    /\ UNCHANGED histVars
    /\ UNCHANGED text
    /\ UNCHANGED sessVars
    /\ UNCHANGED notPipe

\* lines 229-235: what the inner handler does to the exchange
TtsError(e) == SetError(e, "TTS error")

\* synthesis raises and nothing in _handle_command catches it
TtsFails_outer ==
    /\ pc = "tts"
    /\ raisedStage' = "tts"
    /\ OuterExcept
    /\ UNCHANGED <<config, running, wake_detected, session, exchange,
                   follow_ups, expects_follow_up, playing, streams, bargein,
                   chunks_heard, capChunks>>
    /\ UNCHANGED <<cmds, resetSinceWake, streamFailRun, saves,
                   stopDuringCapture, chunkAfterStop, monRead, bargeSeq>>
    /\ UNCHANGED sessVars
    /\ UNCHANGED notPipe

\* lines 149/205 and 229-235: synthesis raises
TtsFails ==
    /\ pc = "tts"
    /\ exchange' = TtsError(exchange)
    /\ raisedStage' = "tts"
    /\ pc' = "ret_false"
    /\ UNCHANGED <<config, running, consecutive_errors, wake_detected,
                   session, follow_ups, expects_follow_up, playing, streams,
                   bargein, chunks_heard, capChunks>>
    /\ UNCHANGED <<cmds, resetSinceWake, failRun, streamFailRun, backoffs,
                   gaveUp, saves, stopDuringCapture, chunkAfterStop, monRead,
                   bargeSeq>>
    /\ UNCHANGED text
    /\ UNCHANGED sessVars
    /\ UNCHANGED notPipe

\* lines 218-228: blocking playback returns; return router.expects_follow_up
Play ==
    /\ pc = "play"
    /\ exchange' = EndPhase(exchange, "playback")
    /\ pc' = IF expects_follow_up THEN "ret_true" ELSE "ret_false"
    /\ UNCHANGED <<config, running, consecutive_errors, wake_detected,
                   session, follow_ups, expects_follow_up, playing, streams,
                   bargein, chunks_heard, capChunks>>
    /\ UNCHANGED histVars
    /\ UNCHANGED text
    /\ UNCHANGED sessVars
    /\ UNCHANGED notPipe

\* lines 218 and 229-235: audio.play raises
PlayFails ==
    /\ pc = "play"
    /\ exchange' = TtsError(exchange)
    /\ raisedStage' = "playback"
    /\ pc' = "ret_false"
    /\ UNCHANGED <<config, running, consecutive_errors, wake_detected,
                   session, follow_ups, expects_follow_up, playing, streams,
                   bargein, chunks_heard, capChunks>>
    /\ UNCHANGED <<cmds, resetSinceWake, failRun, streamFailRun, backoffs,
                   gaveUp, saves, stopDuringCapture, chunkAfterStop, monRead,
                   bargeSeq>>
    /\ UNCHANGED text
    /\ UNCHANGED sessVars
    /\ UNCHANGED notPipe


(* ---------------- _handle_command(): playback with barge-in ---------- *)
\* lines 162-170: audio.play_streamed starts the playback; wake.reset();
\* bargein = False; chunks_heard = 0; stream = audio.stream()
PlayStreamed ==
    /\ pc = "play_streamed"
    /\ playing' = TRUE
    /\ resetSinceWake' = TRUE
    /\ bargein' = FALSE
    /\ chunks_heard' = 0
    /\ monRead' = 0
    /\ pc' = "mon_next"
    /\ UNCHANGED <<config, running, consecutive_errors, wake_detected,
                   session, exchange, follow_ups, expects_follow_up, streams,
                   capChunks>>
    /\ UNCHANGED <<cmds, failRun, streamFailRun, backoffs, gaveUp,
                   raisedStage, saves, stopDuringCapture, chunkAfterStop,
                   bargeSeq>>
    /\ UNCHANGED text
    /\ UNCHANGED sessVars
    /\ UNCHANGED notPipe

\* lines 162 and 229-235: audio.play_streamed raises
PlayStreamedFails ==
    /\ pc = "play_streamed"
    /\ exchange' = TtsError(exchange)
    /\ raisedStage' = "playback"
    /\ pc' = "ret_false"
    /\ UNCHANGED <<config, running, consecutive_errors, wake_detected,
                   session, follow_ups, expects_follow_up, playing, streams,
                   bargein, chunks_heard, capChunks>>
    /\ UNCHANGED <<cmds, resetSinceWake, failRun, streamFailRun, backoffs,
                   gaveUp, saves, stopDuringCapture, chunkAfterStop, monRead,
                   bargeSeq>>
    /\ UNCHANGED text
    /\ UNCHANGED sessVars
    /\ UNCHANGED notPipe

\* line 172: the monitor stream delivers a chunk.  While the playback goes
\* on at most MaxMonitorChunks are read.
MonChunk ==
    /\ pc = "mon_next"
    /\ monRead < MaxMonitorChunks \/ ~playing
    /\ streams' = streams \cup {"monitor"}
    /\ monRead' = monRead + 1
    /\ bargeSeq' = Log("chunk")
    /\ pc' = "mon_playing"
    /\ UNCHANGED <<config, running, consecutive_errors, wake_detected,
                   session, exchange, follow_ups, expects_follow_up, playing,
                   bargein, chunks_heard, capChunks>>
    /\ UNCHANGED <<cmds, resetSinceWake, failRun, streamFailRun, backoffs,
                   gaveUp, raisedStage, saves, stopDuringCapture,
                   chunkAfterStop>>
    /\ UNCHANGED text
    /\ UNCHANGED sessVars
    /\ UNCHANGED notPipe

\* lines 184-185 and 229-235: a call inside the monitor loop raises; the
\* finally block closes the stream, the inner handler marks the exchange
MonitorRaise ==
    /\ streams' = streams \ {"monitor"}
    /\ exchange' = TtsError(exchange)
    /\ raisedStage' = "playback"
    /\ bargeSeq' = Log("error")
    /\ bargein' = FALSE
    /\ chunks_heard' = 0
    /\ monRead' = 0
    /\ pc' = "ret_false"
    /\ UNCHANGED <<config, running, consecutive_errors, wake_detected,
                   session, follow_ups, expects_follow_up, playing, capChunks,
                   text>>
    /\ UNCHANGED <<cmds, resetSinceWake, failRun, streamFailRun, backoffs,
                   gaveUp, saves, stopDuringCapture, chunkAfterStop>>

\* line 172: the monitor stream raises instead of a chunk
MonStreamFails ==
    /\ pc = "mon_next"
    /\ MonitorRaise
    /\ UNCHANGED sessVars
    /\ UNCHANGED notPipe

\* lines 173-177: leave when the playback is over, else count the chunk
\* and skip it inside the debounce window
MonPlaying ==
    /\ pc = "mon_playing"
    /\ IF ~playing
         THEN pc' = "mon_finally" /\ UNCHANGED chunks_heard
         ELSE /\ chunks_heard' = chunks_heard + 1
              /\ pc' = IF InDebounce(chunks_heard + 1) THEN "mon_next"
                       ELSE "mon_detect"
    /\ UNCHANGED <<config, running, consecutive_errors, wake_detected,
                   session, exchange, follow_ups, expects_follow_up, playing,
                   streams, bargein, capChunks>>
    /\ UNCHANGED histVars
    /\ UNCHANGED text
    /\ UNCHANGED sessVars
    /\ UNCHANGED notPipe

\* line 178: wake.detect(chunk) on a monitored chunk
MonDetect ==
    /\ pc = "mon_detect"
    /\ \E hit \in BOOLEAN :
         IF hit THEN pc' = "mon_stop" /\ bargeSeq' = <<"detect">>
         ELSE pc' = "mon_next" /\ UNCHANGED bargeSeq
    /\ UNCHANGED <<config, running, consecutive_errors, wake_detected,
                   session, exchange, follow_ups, expects_follow_up, playing,
                   streams, bargein, chunks_heard, capChunks>>
    /\ UNCHANGED <<cmds, resetSinceWake, failRun, streamFailRun, backoffs,
                   gaveUp, raisedStage, saves, stopDuringCapture,
                   chunkAfterStop, monRead>>
    /\ UNCHANGED text
    /\ UNCHANGED sessVars
    /\ UNCHANGED notPipe

\* line 178: wake.detect raises
MonDetectFails ==
    /\ pc = "mon_detect"
    /\ MonitorRaise
    /\ UNCHANGED sessVars
    /\ UNCHANGED notPipe

\* line 180: audio.stop_playback()
MonStop ==
    /\ pc = "mon_stop"
    /\ playing' = FALSE
    /\ bargeSeq' = Log("stop_playback")
    /\ pc' = "mon_reset"
    /\ UNCHANGED <<config, running, consecutive_errors, wake_detected,
                   session, exchange, follow_ups, expects_follow_up, streams,
                   bargein, chunks_heard, capChunks>>
    /\ UNCHANGED <<cmds, resetSinceWake, failRun, streamFailRun, backoffs,
                   gaveUp, raisedStage, saves, stopDuringCapture,
                   chunkAfterStop, monRead>>
    /\ UNCHANGED text
    /\ UNCHANGED sessVars
    /\ UNCHANGED notPipe

\* line 180: audio.stop_playback raises
MonStopFails ==
    /\ pc = "mon_stop"
    /\ MonitorRaise
    /\ UNCHANGED sessVars
    /\ UNCHANGED notPipe

\* MonReset without the break of line 183: the loop reads on
MonReset_nobreak ==
    /\ pc = "mon_reset"
    /\ resetSinceWake' = TRUE
    /\ bargein' = TRUE
    /\ bargeSeq' = Log("reset")
    /\ pc' = "mon_next"
    /\ UNCHANGED <<config, running, consecutive_errors, wake_detected,
                   session, exchange, follow_ups, expects_follow_up, playing,
                   streams, chunks_heard, capChunks>>
    /\ UNCHANGED <<cmds, failRun, streamFailRun, backoffs, gaveUp,
                   raisedStage, saves, stopDuringCapture, chunkAfterStop,
                   monRead>>
    /\ UNCHANGED text
    /\ UNCHANGED text
    /\ UNCHANGED sessVars
    /\ UNCHANGED notPipe

\* lines 181-183: wake.reset(); bargein = True; break
MonReset ==
    /\ pc = "mon_reset"
    /\ resetSinceWake' = TRUE
    /\ bargein' = TRUE
    /\ bargeSeq' = Log("reset")
    /\ pc' = "mon_finally"
    /\ UNCHANGED <<config, running, consecutive_errors, wake_detected,
                   session, exchange, follow_ups, expects_follow_up, playing,
                   streams, chunks_heard, capChunks>>
    /\ UNCHANGED <<cmds, failRun, streamFailRun, backoffs, gaveUp,
                   raisedStage, saves, stopDuringCapture, chunkAfterStop,
                   monRead>>
    /\ UNCHANGED text
    /\ UNCHANGED sessVars
    /\ UNCHANGED notPipe

\* lines 184-197: finally stream.close(); end of the playback phase;
\* had_bargein; wake.reset() unless barged in; return bargein or follow_up
\* (the locals of the monitoring go out of scope)
MonFinally ==
    /\ pc = "mon_finally"
    /\ streams' = streams \ {"monitor"}
    /\ exchange' = SetBargein(EndPhase(exchange, "playback"), bargein)
    /\ resetSinceWake' = (resetSinceWake \/ ~bargein)
    /\ bargeSeq' = Log("close")
    /\ bargein' = FALSE
    /\ chunks_heard' = 0
    /\ monRead' = 0
    /\ pc' = IF bargein \/ expects_follow_up THEN "ret_true" ELSE "ret_false"
    /\ UNCHANGED <<config, running, consecutive_errors, wake_detected,
                   session, follow_ups, expects_follow_up, playing, capChunks>>
    /\ UNCHANGED <<cmds, failRun, streamFailRun, backoffs, gaveUp,
                   raisedStage, saves, stopDuringCapture, chunkAfterStop>>
    /\ UNCHANGED text
    /\ UNCHANGED sessVars
    /\ UNCHANGED notPipe

(* ---------------- loop(): the command loop ---------------- *)
\* lines 276-282: _handle_command returned True
RetTrue ==
    /\ pc = "ret_true"
    /\ follow_ups' = follow_ups + 1
    /\ IF CapReached(follow_ups + 1)
         THEN /\ pc' = "post_cmd"
              /\ bargeSeq' = Log("listening")
              /\ ack_played' = FALSE
         ELSE /\ pc' = "cmd_start"
              /\ bargeSeq' = Log("capture")
              /\ ack_played' = (config.wake_feedback /\ ~expects_follow_up)
    /\ UNCHANGED <<config, running, consecutive_errors, wake_detected,
                   session, exchange, expects_follow_up, playing, streams,
                   bargein, chunks_heard, capChunks>>
    /\ UNCHANGED <<cmds, resetSinceWake, failRun, streamFailRun, backoffs,
                   gaveUp, raisedStage, saves, stopDuringCapture,
                   chunkAfterStop, monRead>>
    /\ text' = "unset"
    /\ UNCHANGED <<phase_raises, feature_expects, any_expected>>
    /\ UNCHANGED notPipe

\* lines 277-282: the acknowledgement clip before the next capture raises
RetTrueAckFails ==
    /\ pc = "ret_true"
    /\ ~CapReached(follow_ups + 1)
    /\ config.wake_feedback /\ ~expects_follow_up
    /\ follow_ups' = follow_ups + 1
    /\ bargeSeq' = Log("error")
    /\ OuterExcept
    /\ UNCHANGED <<config, running, wake_detected, session, exchange,
                   expects_follow_up, playing, streams, bargein,
                   chunks_heard, capChunks>>
    /\ UNCHANGED <<cmds, resetSinceWake, streamFailRun, raisedStage, saves,
                   stopDuringCapture, chunkAfterStop, monRead>>
    /\ UNCHANGED sessVars
    /\ UNCHANGED notPipe

\* line 276: _handle_command returned False
RetFalse ==
    /\ pc = "ret_false"
    /\ pc' = "post_cmd"
    /\ UNCHANGED <<config, running, consecutive_errors, wake_detected,
                   session, exchange, follow_ups, expects_follow_up, playing,
                   streams, bargein, chunks_heard, capChunks>>
    /\ UNCHANGED histVars
    /\ UNCHANGED text
    /\ UNCHANGED sessVars
    /\ UNCHANGED notPipe

\* Session.finish
Finish(s) == [s EXCEPT !.ended_at = TRUE]

\* wake.reset(); session.finish(); save_session(session) with nothing
\* around the telemetry calls: a raise reaches the handler of the loop
PostCmd_unguarded ==
    /\ pc = "post_cmd"
    /\ resetSinceWake' = TRUE
    /\ \/ /\ IF session.present /\ config.telemetry
               THEN session' = Finish(session) /\ saves' = saves + 1
               ELSE UNCHANGED <<session, saves>>
          /\ pc' = "loop_top"
          /\ text' = "unset"
          /\ UNCHANGED <<consecutive_errors, failRun, backoffs, gaveUp>>
       \/ /\ session.present /\ config.telemetry
          /\ session' = Finish(session)
          /\ saves' = saves + 1
          /\ OuterExcept
    /\ UNCHANGED <<config, running, wake_detected, exchange, follow_ups,
                   expects_follow_up, playing, streams, bargein,
                   chunks_heard, capChunks>>
    /\ UNCHANGED <<cmds, streamFailRun, raisedStage, stopDuringCapture,
                   chunkAfterStop, monRead, bargeSeq>>
    /\ UNCHANGED sessVars
    /\ UNCHANGED notPipe

\* lines 283-291: wake.reset(); session.finish(); save_session(session)
\* inside try/except Exception.  When finish raises the session is left
\* open and save_session is not called; a save_session that raises is a
\* call like one that returns, and the loop goes on alike.
PostCmd ==
    /\ pc = "post_cmd"
    /\ resetSinceWake' = TRUE
    /\ IF session.present /\ config.telemetry
         THEN \E finished \in BOOLEAN :
                IF finished
                  THEN session' = Finish(session) /\ saves' = saves + 1
                  ELSE UNCHANGED <<session, saves>>
         ELSE UNCHANGED <<session, saves>>
    /\ pc' = "loop_top"
    /\ UNCHANGED <<config, running, consecutive_errors, wake_detected,
                   exchange, follow_ups, expects_follow_up, playing, streams,
                   bargein, chunks_heard, capChunks>>
    /\ UNCHANGED <<cmds, failRun, streamFailRun, backoffs, gaveUp,
                   raisedStage, stopDuringCapture, chunkAfterStop, monRead,
                   bargeSeq>>
    /\ text' = "unset"
    /\ UNCHANGED sessVars
    /\ UNCHANGED notPipe

(* ---------------- specification ---------------- *)
Next ==
    \/ Stop
    \/ PlaybackEnds
    \/ LoopTop
    \/ WakeChunk
    \/ WakeStreamFails
    \/ WakeRunning
    \/ WakeDetect
    \/ WakeDetectFails
    \/ Ack
    \/ AckFails
    \/ CmdStart
    \/ CaptureChunk
    \/ CaptureDone
    \/ CaptureFails
    \/ Stt
    \/ SttFails
    \/ Route
    \/ RouteFails
    \/ Tts
    \/ TtsFails
    \/ Play
    \/ PlayFails
    \/ PlayStreamed
    \/ PlayStreamedFails
    \/ MonChunk
    \/ MonStreamFails
    \/ MonPlaying
    \/ MonDetect
    \/ MonDetectFails
    \/ MonStop
    \/ MonStopFails
    \/ MonReset
    \/ MonFinally
    \/ RetTrue
    \/ RetTrueAckFails
    \/ RetFalse
    \/ PostCmd

Spec == Init /\ [][Next]_vars

TypeOK ==
    /\ config \in Configs
    /\ running \in BOOLEAN
    /\ consecutive_errors \in 0..max_errors
    /\ follow_ups \in 0..MAX_FOLLOW_UPS
    /\ streams \subseteq {"wake", "capture", "monitor"}
    /\ chunks_heard \in 0..MaxMonitorChunks
    /\ capChunks \in 0..MaxCaptureChunks


(* ======================= properties ======================= *)
Range(q) == {q[i] : i \in 1..Len(q)}
Last(q) == q[Len(q)]
Front(q) == SubSeq(q, 1, Len(q) - 1)
ListeningPcs == {"wake_next", "wake_running", "wake_detect"}

\* C1: between a wake detection and the next return to wake-listening at
\* most MAX_FOLLOW_UPS (10) commands are processed, whatever the router,
\* the wake detector and the audio do; when the cap is reached the command
\* loop breaks and the pipeline goes back to LISTENING.
FollowUpCap ==
    /\ [](cmds <= MAX_FOLLOW_UPS)
    /\ [][(pc = "ret_true" /\ cmds = MAX_FOLLOW_UPS)
            => pc' \in {"ret_true", "post_cmd"}]_vars
    /\ [][pc = "post_cmd" => pc' \in {"post_cmd", "loop_top"}]_vars

\* the cap was reached by a session whose last playback was barged into
FollowUpCapWitness ==
    /\ pc = "post_cmd"
    /\ cmds = MAX_FOLLOW_UPS
    /\ follow_ups = MAX_FOLLOW_UPS
    /\ exchange.had_bargein

\* C2: at every point at most one chunk stream of audio.stream() is open.
OneStreamOpen == Cardinality(streams) <= 1

\* the monitor stream is the open one at the barge-in early exit
OneStreamOpenWitness ==
    /\ pc = "mon_finally"
    /\ bargein
    /\ streams = {"monitor"}

\* C3: after a wake detection in LISTENING, wake.reset() has been called
\* before wake.detect is next called in LISTENING.
ResetBeforeNextDetect == (pc = "wake_detect") => resetSinceWake

\* C4: three audio.stream failures in a row with no chunk in between end
\* the loop for good, and the loop is never given up after fewer than
\* three failures since the last chunk.
BoundedRetry ==
    /\ [](gaveUp => failRun >= max_errors)
    /\ [](streamFailRun >= max_errors => (pc = "stopped" /\ gaveUp))
    /\ [][pc = "stopped" => pc' = "stopped"]_vars

\* the loop was given up on the third stream failure in a row
BoundedRetryWitness == gaveUp /\ streamFailRun = max_errors /\ streams = {}

\* C5 (as stated): three audio.stream failures in a row are followed by
\* backoff delays of 2 s, 4 s and 8 s.
ThreeBackoffs == (streamFailRun = max_errors) => (backoffs = <<2, 4, 8>>)

\* C5 (amended): three audio.stream failures in a row give two retries,
\* with delays of 2 s and 4 s; the third failure ends the loop at once.
TwoBackoffsThenExit ==
    (streamFailRun = max_errors) => (backoffs = <<2, 4>> /\ pc = "stopped")

TwoBackoffsWitness ==
    pc = "stopped" /\ streamFailRun = max_errors /\ Len(backoffs) = 2

\* C6: when a stage of a command has raised, the current Exchange carries
\* a non-empty error.
ErrorOnRaise ==
    (raisedStage # "none" /\ exchange.present) => exchange.error # "None"

\* C7: whenever the pipeline listens for the wake word, the Session of the
\* previous wake detection is finished and was saved exactly once.
SessionSavedOnce ==
    (pc \in ListeningPcs /\ session.present)
        => (session.ended_at /\ saves = 1)

DebounceHolds ==
    /\ (pc \in {"mon_detect", "mon_stop", "mon_reset"})
          => monRead > BARGEIN_DEBOUNCE_CHUNKS
    /\ bargein => monRead > BARGEIN_DEBOUNCE_CHUNKS

\* wake.detect is about to run on the first chunk after the debounce
DebounceWitness ==
    pc = "mon_detect" /\ monRead = BARGEIN_DEBOUNCE_CHUNKS + 1

BargeinCalls == <<"detect", "stop_playback", "reset", "close">>

\* C10 (as stated): after a positive detection on a monitored chunk come,
\* in this order and with nothing else in between, stop_playback,
\* wake.reset, the close of the monitor stream and the next capture
\* (checked for the runs in which none of these calls raises).
BargeinThenCapture ==
    ("error" \notin Range(bargeSeq))
        => IsPrefix(bargeSeq, Append(BargeinCalls, "capture"))

\* C10 (amended): the same order, the next capture belonging to the same
\* Session and needing no wake detection; but a barge-in into the 10th
\* command of a session ends the command loop (back to LISTENING), and a
\* call that raises ends the exchange.  The session is still open and
\* holds an exchange for every command but those whose creation raised.
BargeinOrder ==
    /\ \/ IsPrefix(bargeSeq, Append(BargeinCalls, "capture"))
       \/ bargeSeq = Append(BargeinCalls, "listening")
            /\ cmds = MAX_FOLLOW_UPS
       \/ /\ bargeSeq # <<>>
          /\ Last(bargeSeq) = "error"
          /\ IsPrefix(Front(bargeSeq), BargeinCalls)
    /\ (bargeSeq # <<>> /\ Last(bargeSeq) = "capture")
          => /\ pc = "cmd_start"
             /\ cmds < MAX_FOLLOW_UPS
             /\ session.present =>
                  /\ ~session.ended_at
                  /\ Len(session.exchanges) <= cmds
                  /\ cmds <= Len(session.exchanges) + MaxCreateFailures

\* the next capture is queued after a barge-in although the router expects
\* no follow-up
BargeinOrderWitness ==
    /\ bargeSeq = Append(BargeinCalls, "capture")
    /\ ~expects_follow_up
    /\ session.present


\* C11: after a blank transcription (nothing, empty or whitespace only) the
\* command returns False at once, whatever router.expects_follow_up is:
\* routing, TTS and playback are never started, and the exchange keeps
\* response_text, routing_path and matched_feature unset.
BlankSkipsRouting ==
    text \in {"None", "", " "} =>
      /\ pc \in {"ret_false", "post_cmd"}
      /\ exchange.present =>
           /\ exchange.started \cap {"routing", "tts", "playback"} = {}
           /\ exchange.response_text = FALSE
           /\ exchange.routing_path = "None"
           /\ exchange.matched_feature = "None"

\* a whitespace-only follow-up command ends the session although the
\* router still expects a follow-up
BlankSkipsRoutingWitness ==
    /\ text = " "
    /\ pc = "post_cmd"
    /\ expects_follow_up
    /\ exchange.present /\ exchange.is_follow_up /\ exchange.transcription

\* the values of routing_path that name a stage of the router
RoutingPaths == {"llm_parse", "regex", "recovery", "llm_fallback"}

\* C17: every exchange whose routing phase completed has routing_path set
\* to one of llm_parse, regex, recovery, llm_fallback.
RoutingPathSet ==
    (exchange.present /\ "routing" \in exchange.ended) =>
      exchange.routing_path \in RoutingPaths


(***************************************************************************)
(* Part 2: the intent router (src/src/intent/router.py).  One route() call *)
(* is a sequence of steps, one per collaborator call (parse_intent, the    *)
(* features' matches/handle/execute, classify_intent, respond); the LLM    *)
(* and the features are the environment and may answer anything their      *)
(* contracts allow.  The pipeline is held at rest.                         *)
(***************************************************************************)
\* the registry, in registry order; 0 stands for None
Features == {1, 2}

\* the "expects_follow_up" entry of a parse result: absent, true or false
FollowUpSignals == {"absent", "true", "false"}

\* parsed.get("expects_follow_up", default): lines 101, 115, 120
Get(efu, default) == IF efu = "absent" THEN default ELSE efu = "true"

\* the "speech" entry of a parse result, parsed.get("speech", ""): line 87
Speeches == {"", "Adding milk to your list."}

\* line 108: if speech
SpeechUsable_always(sp) == TRUE
SpeechUsable(sp) == sp # ""

\* lines 54-58, _try_features: the first feature of the registry whose
\* matches() is true
FirstMatch_last(m) == CHOOSE f \in m : \A g \in m : g <= f
FirstMatch(m) == CHOOSE f \in m : \A g \in m : f <= g

\* lines 44-50, the expects_follow_up property
ExpectsFollowUp(r) ==
    \/ r.last_feature # 0 /\ r.feature_fu[r.last_feature]
    \/ r.llm_expects_follow_up

\* line 162: if self._recovery_enabled and self._feature_descriptions
AfterRegexMiss(r) == IF r.recovery THEN "recovery" ELSE "respond"

\* a route() call starts (line 148); the observation of the previous call
\* is cleared
RouteBegin ==
    /\ router.rpc = "idle"
    /\ router' = [router EXCEPT !.rpc = "parse", !.stages = <<>>,
                                !.path = "none", !.recs = <<>>,
                                !.matched = {}, !.kind = "none",
                                !.execute_raised = FALSE, !.speech = ""]
    /\ UNCHANGED notRouter

\* lines 82-84, 91-94, 124-125: parse_intent returns None (no tool block or
\* an API failure), names a feature the registry does not hold, or has an
\* unknown type: _try_llm_parse returns None and nothing else changes
ParseMiss ==
    /\ router.rpc = "parse"
    /\ router' = [router EXCEPT !.rpc = "regex",
                                !.stages = Append(@, "llm_parse")]
    /\ UNCHANGED notRouter

\* lines 89-104: an action for a known feature, execute returns
ParseAction ==
    /\ router.rpc = "parse"
    /\ \E f \in Features, efu \in FollowUpSignals, b \in BOOLEAN :
         router' = [router EXCEPT
            !.last_feature = f,
            !.llm_expects_follow_up = Get(efu, FALSE),
            !.feature_fu[f] = b,
            !.recs = Append(@, <<"text", "result">>),
            !.stages = Append(@, "llm_parse"),
            !.rpc = "returned", !.path = "llm_parse", !.kind = "action",
            !.signal = Get(efu, FALSE)]
    /\ UNCHANGED notRouter

\* lines 89-111: an action for a known feature, execute raises: the speech
\* is recorded and returned when there is one, else _try_llm_parse returns
\* None and route() goes on with the regex stage
ParseActionFails ==
    /\ router.rpc = "parse"
    /\ \E f \in Features, efu \in FollowUpSignals, sp \in Speeches,
          b \in BOOLEAN :
         LET r == [router EXCEPT
                     !.last_feature = f,
                     !.llm_expects_follow_up = Get(efu, FALSE),
                     !.feature_fu[f] = b,
                     !.stages = Append(@, "llm_parse"),
                     !.execute_raised = TRUE, !.speech = sp] IN
         router' = IF SpeechUsable(sp)
                     THEN [r EXCEPT !.recs = Append(@, <<"text", "speech">>),
                                    !.rpc = "returned", !.path = "llm_parse",
                                    !.kind = "action",
                                    !.signal = Get(efu, FALSE)]
                     ELSE [r EXCEPT !.rpc = "regex"]
    /\ UNCHANGED notRouter

\* lines 113-117: a conversation result
ParseConversation ==
    /\ router.rpc = "parse"
    /\ \E efu \in FollowUpSignals :
         router' = [router EXCEPT
            !.last_feature = 0,
            !.llm_expects_follow_up = Get(efu, FALSE),
            !.recs = Append(@, <<"text", "speech">>),
            !.stages = Append(@, "llm_parse"),
            !.rpc = "returned", !.path = "llm_parse",
            !.kind = "conversation", !.signal = Get(efu, FALSE)]
    /\ UNCHANGED notRouter

\* lines 119-122: a clarification result; _last_feature is left as it is
ParseClarification ==
    /\ router.rpc = "parse"
    /\ \E efu \in FollowUpSignals :
         router' = [router EXCEPT
            !.llm_expects_follow_up = Get(efu, TRUE),
            !.recs = Append(@, <<"text", "speech">>),
            !.stages = Append(@, "llm_parse"),
            !.rpc = "returned", !.path = "llm_parse",
            !.kind = "clarification", !.signal = Get(efu, TRUE)]
    /\ UNCHANGED notRouter

\* lines 155-156 and 52-59: no feature matches the text
RegexMiss ==
    /\ router.rpc = "regex"
    /\ router' = [router EXCEPT !.rpc = AfterRegexMiss(router),
                                !.stages = Append(@, "regex"),
                                !.matched = {}]
    /\ UNCHANGED notRouter

\* lines 155-160 and 52-59: the features of m match; the first one handles
\* the text, the LLM's follow-up flag is cleared and the exchange recorded
RegexMatch ==
    /\ router.rpc = "regex"
    /\ \E m \in SUBSET Features \ {{}}, b \in BOOLEAN :
         LET f == FirstMatch(m) IN
         router' = [router EXCEPT
            !.last_feature = f,
            !.feature_fu[f] = b,
            !.llm_expects_follow_up = FALSE,
            !.recs = Append(@, <<"text", "result">>),
            !.stages = Append(@, "regex"),
            !.matched = m,
            !.rpc = "returned", !.path = "regex", !.kind = "none",
            !.signal = FALSE]
    /\ UNCHANGED notRouter

\* lines 155-156 and 52-59: the handle() of the first matching feature
\* raises, and nothing in route() catches it
RegexRaises ==
    /\ router.rpc = "regex"
    /\ \E m \in SUBSET Features \ {{}}, b \in BOOLEAN :
         LET f == FirstMatch(m) IN
         router' = [router EXCEPT
            !.last_feature = f,
            !.feature_fu[f] = b,
            !.stages = Append(@, "regex"),
            !.matched = m,
            !.rpc = "raised"]
    /\ UNCHANGED notRouter

\* lines 162-176: classify_intent returns nothing or raises, or no feature
\* matches the corrected text: route() falls through to the fallback
RecoveryMiss ==
    /\ router.rpc = "recovery"
    /\ router' = [router EXCEPT !.rpc = "respond",
                                !.stages = Append(@, "recovery"),
                                !.matched = {}]
    /\ UNCHANGED notRouter

\* lines 162-176: a feature matches the corrected text but its handle()
\* raises; the except of line 175 swallows it
RecoveryRaises ==
    /\ router.rpc = "recovery"
    /\ \E m \in SUBSET Features \ {{}}, b \in BOOLEAN :
         LET f == FirstMatch(m) IN
         router' = [router EXCEPT
            !.last_feature = f,
            !.feature_fu[f] = b,
            !.stages = Append(@, "recovery"),
            !.matched = {},
            !.rpc = "respond"]
    /\ UNCHANGED notRouter

\* lines 162-173: classify_intent returns a corrected text that the features
\* of m match; the exchange is recorded with the original text.  The LLM's
\* follow-up flag is not touched on this path.
RecoveryMatch ==
    /\ router.rpc = "recovery"
    /\ \E m \in SUBSET Features \ {{}}, b \in BOOLEAN :
         LET f == FirstMatch(m) IN
         router' = [router EXCEPT
            !.last_feature = f,
            !.feature_fu[f] = b,
            !.recs = Append(@, <<"text", "result">>),
            !.stages = Append(@, "recovery"),
            !.matched = m,
            !.rpc = "returned", !.path = "recovery", !.kind = "none",
            !.signal = FALSE]
    /\ UNCHANGED notRouter

\* lines 178-182: the conversational fallback; respond() keeps the history
\* itself
Respond ==
    /\ router.rpc = "respond"
    /\ router' = [router EXCEPT
            !.last_feature = 0,
            !.llm_expects_follow_up = FALSE,
            !.stages = Append(@, "llm_fallback"),
            !.rpc = "returned", !.path = "llm_fallback", !.kind = "none",
            !.signal = FALSE]
    /\ UNCHANGED notRouter

\* route() has returned or raised; the caller reads expects_follow_up
RouteEnd ==
    /\ router.rpc \in {"returned", "raised"}
    /\ router' = [router EXCEPT !.rpc = "idle"]
    /\ UNCHANGED notRouter

\* features/media.py lines 164-165: a feature's pending state expires with
\* time, and its expects_follow_up turns false
FeatureExpires ==
    /\ \E f \in Features :
         /\ router.feature_fu[f]
         /\ router' = [router EXCEPT !.feature_fu[f] = FALSE]
    /\ UNCHANGED notRouter

RouterInit ==
    /\ PipeIdle
    /\ \E rec \in BOOLEAN : router = [RouterIdle EXCEPT !.recovery = rec]
    /\ llm = LlmIdle
    /\ vad = VadIdle
    /\ store = StoreIdle
    /\ web = WebIdle
    /\ reminder = ReminderIdle
    /\ media = MediaIdle

RouterNext ==
    \/ RouteBegin
    \/ ParseMiss
    \/ ParseAction
    \/ ParseActionFails
    \/ ParseConversation
    \/ ParseClarification
    \/ RegexMiss
    \/ RegexMatch
    \/ RegexRaises
    \/ RecoveryMiss
    \/ RecoveryRaises
    \/ RecoveryMatch
    \/ Respond
    \/ RouteEnd
    \/ FeatureExpires

RouterSpec == RouterInit /\ [][RouterNext]_vars

(* ---------------- properties of the router ---------------- *)
RouteDone == router.rpc \in {"returned", "idle"} /\ router.path # "none"

\* the stage sequences route() can go through
StageOrders ==
    {<<"llm_parse", "regex", "recovery", "llm_fallback">>,
     <<"llm_parse", "regex", "llm_fallback">>}

\* C12: the stages of a route are invoked in the fixed order parse, regex,
\* recovery (when enabled), fallback; the route returns at the stage that
\* produced the response, so that stage is the last one invoked; a regex
\* or recovery response comes from the first matching feature of the
\* registry; the fallback runs only after every earlier stage was invoked
\* and missed.
RouteOrder ==
    /\ \E o \in StageOrders : IsPrefix(router.stages, o)
    /\ router.rpc = "returned" =>
         /\ router.path = Last(router.stages)
         /\ router.path \in {"regex", "recovery"} =>
              /\ router.matched # {}
              /\ \A g \in router.matched : router.last_feature <= g
    /\ (~router.recovery /\ router.stages # <<>>) =>
         Last(router.stages) # "recovery"
    /\ (router.recovery /\ Len(router.stages) >= 3) =>
         router.stages[3] = "recovery"

\* a route answered in the recovery stage, after the parse and the regex
\* stages missed, by the first of two features matching the corrected text
RouteOrderWitness ==
    /\ router.rpc = "returned"
    /\ router.stages = <<"llm_parse", "regex", "recovery">>
    /\ router.matched = {1, 2}
    /\ router.last_feature = 1

\* C13: after a route, router.expects_follow_up is true when the
\* last-matched feature expects a follow-up, and otherwise is the value the
\* LLM signalled in that route (false when the LLM's parse did not resolve
\* it).
FollowUpResolution ==
    RouteDone =>
      ExpectsFollowUp(router) =
        (\/ router.last_feature # 0 /\ router.feature_fu[router.last_feature]
         \/ router.signal)

\* C14: after a route resolved by the regex stage or by recovery,
\* router.expects_follow_up is the matched feature's expects_follow_up.
FeatureDecidesFollowUp ==
    (RouteDone /\ router.path \in {"regex", "recovery"}) =>
      ExpectsFollowUp(router) = router.feature_fu[router.last_feature]

\* C15: after a clarification, router.expects_follow_up is the value of the
\* clarification (true when omitted), whatever feature an earlier route
\* matched.
ClarificationAsConversation ==
    (RouteDone /\ router.kind = "clarification") =>
      ExpectsFollowUp(router) = router.signal

\* C16 as stated: when execute raised, the route returns the speech, records
\* (text, speech) once and invokes no later stage.
ExecuteFailureReturnsSpeech ==
    router.execute_raised =>
      /\ router.rpc \in {"returned", "idle"}
      /\ router.path = "llm_parse"
      /\ router.recs = << <<"text", "speech">> >>
      /\ router.stages = <<"llm_parse">>

\* C16, amended: that holds when the speech is not empty; with an empty
\* speech nothing is recorded by the parse stage and the route goes on with
\* the regex stage.
ExecuteFailureWithSpeech ==
    router.execute_raised =>
      IF router.speech # ""
        THEN /\ router.rpc \in {"returned", "idle"}
             /\ router.path = "llm_parse"
             /\ router.recs = << <<"text", "speech">> >>
             /\ router.stages = <<"llm_parse">>
        ELSE /\ router.rpc = "regex" \/ Len(router.stages) >= 2
             /\ <<"text", "speech">> \notin Range(router.recs)

\* execute raised, the speech was returned and recorded
ExecuteFailureWitness ==
    /\ router.execute_raised
    /\ router.speech # ""
    /\ router.rpc = "returned"
    /\ router.recs = << <<"text", "speech">> >>


(***************************************************************************)
(* Part 3: the conversation history of the LLM (src/src/llm/base.py, with  *)
(* the calls of src/src/llm/claude_llm.py and src/src/llm/mock_llm.py that *)
(* use it).  An entry of the history is [id, t]: the number of the call    *)
(* that recorded it (standing for its user and assistant texts) and its    *)
(* time.monotonic() timestamp.  The pipeline is held at rest.              *)
(***************************************************************************)
\* calls that record an entry, and the reach of the clock
MaxLlmCalls == 3
MaxLlmTime == 3

\* the configured llm_max_history and llm_history_ttl values explored
LlmMaxHistories == {0, 1, 2}
LlmTtls == {0, 2}

\* Python's seq[k:] for any integer k: a negative k counts from the end,
\* and -0 is 0, the start of the list
SliceFrom(q, k) ==
    LET from == IF k < 0 THEN (IF Len(q) + k < 0 THEN 0 ELSE Len(q) + k)
                ELSE (IF k > Len(q) THEN Len(q) ELSE k)
    IN  SubSeq(q, from + 1, Len(q))

\* base.py lines 26-31, _expire_history
ExpireHistory_ge(h, now, ttl) ==
    IF ttl <= 0 THEN h
    ELSE LET Kept(e) == e.t >= now - ttl IN SelectSeq(h, Kept)
ExpireHistory(h, now, ttl) ==
    IF ttl <= 0 THEN h
    ELSE LET Kept(e) == e.t > now - ttl IN SelectSeq(h, Kept)

\* base.py lines 43-47, _record_exchange
RecordInHistory(h, e, max) ==
    LET a == Append(h, e) IN
    IF Len(a) > max THEN SliceFrom(a, -max) ELSE a

\* time.monotonic() advances between two calls
LlmTick ==
    /\ llm.now < MaxLlmTime
    /\ llm' = [llm EXCEPT !.now = @ + 1, !.before = llm.history,
                          !.last_op = "tick"]
    /\ UNCHANGED notLlm

\* mock_llm.py lines 22-27, MockLLM.respond: records the canned response
MockRespond ==
    /\ llm.calls < MaxLlmCalls
    /\ llm' = [llm EXCEPT
          !.calls = @ + 1,
          !.before = llm.history,
          !.last_op = "respond",
          !.history = RecordInHistory(llm.history,
                          [id |-> llm.calls + 1, t |-> llm.now],
                          llm.max_history)]
    /\ UNCHANGED notLlm

\* claude_llm.py lines 217-242, ClaudeLLM.respond, the API call succeeds:
\* _get_messages expires the history, then the exchange is recorded
ClaudeRespond ==
    /\ llm.calls < MaxLlmCalls
    /\ llm' = [llm EXCEPT
          !.calls = @ + 1,
          !.before = llm.history,
          !.last_op = "respond",
          !.history = RecordInHistory(
                          ExpireHistory(llm.history, llm.now, llm.history_ttl),
                          [id |-> llm.calls + 1, t |-> llm.now],
                          llm.max_history)]
    /\ UNCHANGED notLlm

\* claude_llm.py lines 217-257, ClaudeLLM.respond, the API call fails:
\* the history was expired by _get_messages, nothing is recorded
ClaudeRespondFails ==
    /\ llm' = [llm EXCEPT
          !.before = llm.history,
          !.last_op = "respond_failed",
          !.history = ExpireHistory(llm.history, llm.now, llm.history_ttl)]
    /\ UNCHANGED notLlm

\* BaseLLM.record_exchange(user, assistant), the public call the router
\* makes: commits the pair through _record_exchange
RecordExchange ==
    /\ llm.calls < MaxLlmCalls
    /\ llm' = [llm EXCEPT
          !.calls = @ + 1,
          !.before = llm.history,
          !.last_op = "record_exchange",
          !.history = RecordInHistory(llm.history,
                          [id |-> llm.calls + 1, t |-> llm.now],
                          llm.max_history)]
    /\ UNCHANGED notLlm

\* claude_llm.py lines 135-215, ClaudeLLM.parse_intent: _get_messages is
\* called first (line 157) on every path, whatever the API then returns
\* (a tool block, no tool block, an exception); nothing is recorded
ParseIntent ==
    /\ llm' = [llm EXCEPT
          !.before = llm.history,
          !.last_op = "parse_intent",
          !.history = ExpireHistory(llm.history, llm.now, llm.history_ttl)]
    /\ UNCHANGED notLlm

\* claude_llm.py lines 259-304, ClaudeLLM.classify_intent: stateless
ClassifyIntent ==
    /\ llm' = [llm EXCEPT !.before = llm.history,
                          !.last_op = "classify_intent"]
    /\ UNCHANGED notLlm

LlmInit ==
    /\ PipeIdle
    /\ router = RouterIdle
    /\ \E m \in LlmMaxHistories, ttl \in LlmTtls :
         llm = [LlmIdle EXCEPT !.max_history = m, !.history_ttl = ttl]
    /\ vad = VadIdle
    /\ store = StoreIdle
    /\ web = WebIdle
    /\ reminder = ReminderIdle
    /\ media = MediaIdle

LlmNext ==
    \/ MockRespond
    \/ ClaudeRespond
    \/ ClaudeRespondFails
    \/ RecordExchange
    \/ ParseIntent
    \/ ClassifyIntent
    \/ LlmTick

LlmSpec == LlmInit /\ [][LlmNext]_vars

(* ---------------- properties of the history ---------------- *)
\* C18 as stated: parse_intent leaves the history as it found it.
ParseIntentKeepsHistory ==
    llm.last_op = "parse_intent" => llm.history = llm.before

\* C18, amended: parse_intent records nothing; the history it leaves is the
\* one it found without the entries whose age has reached the TTL, so it is
\* unchanged when the TTL is off (<= 0) or no entry is that old.
ParseIntentOnlyExpires ==
    llm.last_op = "parse_intent" =>
      LET Fresh(e) == llm.history_ttl <= 0 \/ llm.now - e.t < llm.history_ttl
      IN  /\ llm.history = SelectSeq(llm.before, Fresh)
          /\ (\A i \in 1..Len(llm.before) : Fresh(llm.before[i]))
               => llm.history = llm.before

\* parse_intent dropped an expired entry and kept a younger one
ParseIntentExpiresWitness ==
    /\ llm.last_op = "parse_intent"
    /\ Len(llm.before) = 2
    /\ Len(llm.history) = 1
    /\ llm.history[1] = llm.before[2]

\* C19: the history holds at most llm_max_history entries, the most recent
\* ones in call order.
HistoryCapped ==
    /\ Len(llm.history) <= llm.max_history
    /\ \A i \in 1..Len(llm.history) :
         llm.history[i].id = llm.calls - Len(llm.history) + i


(***************************************************************************)
(* Part 4: VoiceActivityDetector.record_until_silence (src/src/utils/      *)
(* vad.py).  The stream hands over one chunk per step; a chunk is          *)
(* [id, loud, elapsed]: its position in the stream, whether its RMS energy *)
(* reaches vad_silence_threshold, and the elapsed time read at line 54     *)
(* when it was received.  One iteration of the loop takes no time; time    *)
(* passes while the loop waits for the next chunk.                         *)
(***************************************************************************)
\* chunks one recording may consume, and the reach of the clock
MaxVadChunks == 4
MaxVadTime == 4

\* the configurations explored, in ticks (lines 21-25)
VadSilenceDurations == {0, 1, 2}
VadMinDurations == {0, 2}
VadMaxDurations == {2, 3}
VadSpeechChunksRequired == {0, 2, 3}

\* line 58: if elapsed >= self._max_duration
MaxReached_gt(elapsed, max) == elapsed > max
MaxReached(elapsed, max) == elapsed >= max

\* line 77: past_min = elapsed >= self._min_duration
PastMin_always(elapsed, min) == TRUE
PastMin(elapsed, min) == elapsed >= min

\* line 89: b"".join(chunks), the chunks' contents in list order
Join(chunks) == [i \in 1..Len(chunks) |-> chunks[i].id]

\* line 50: speech_started = self._speech_chunks_required <= 0
SpeechStartedAtStart_always(required) == TRUE
SpeechStartedAtStart(required) == required <= 0

\* lines 46-50: the locals at the start of the recording
VadStart ==
    /\ vad.vpc = "idle"
    /\ vad' = [vad EXCEPT
          !.vpc = "recording", !.start = vad.now, !.chunks = <<>>,
          !.silence_start = -1, !.speech_chunks = 0,
          !.speech_started =
              SpeechStartedAtStart(vad.speech_chunks_required)]
    /\ UNCHANGED notVad

\* time passes while the loop waits for the next chunk
VadTick ==
    /\ vad.vpc = "recording"
    /\ vad.now < MaxVadTime
    /\ vad' = [vad EXCEPT !.now = @ + 1]
    /\ UNCHANGED notVad

\* lines 53-60: a chunk arrives when max_duration has been reached; it is
\* appended and the loop breaks before its energy is looked at
VadMaxReached ==
    /\ vad.vpc = "recording"
    /\ Len(vad.chunks) < MaxVadChunks
    /\ MaxReached(vad.now - vad.start, vad.max_duration)
    /\ \E loud \in BOOLEAN :
         vad' = [vad EXCEPT
            !.chunks = Append(@, [id |-> Len(vad.chunks) + 1, loud |-> loud,
                                  elapsed |-> vad.now - vad.start]),
            !.vpc = "closing", !.stop = "max"]
    /\ UNCHANGED notVad

\* lines 53-69: a chunk at or above the threshold arrives in time
VadLoud ==
    /\ vad.vpc = "recording"
    /\ Len(vad.chunks) < MaxVadChunks
    /\ ~MaxReached(vad.now - vad.start, vad.max_duration)
    /\ vad' = [vad EXCEPT
          !.chunks = Append(@, [id |-> Len(vad.chunks) + 1, loud |-> TRUE,
                                elapsed |-> vad.now - vad.start]),
          !.speech_chunks = @ + 1,
          !.speech_started =
              @ \/ (vad.speech_chunks + 1 >= vad.speech_chunks_required),
          !.silence_start = -1]
    /\ UNCHANGED notVad

\* lines 53-83: a chunk below the threshold arrives in time; once speech has
\* started the silence is timed, and the loop breaks when it has lasted
\* silence_duration and min_duration has elapsed
VadQuiet ==
    /\ vad.vpc = "recording"
    /\ Len(vad.chunks) < MaxVadChunks
    /\ ~MaxReached(vad.now - vad.start, vad.max_duration)
    /\ LET elapsed == vad.now - vad.start
           c == [id |-> Len(vad.chunks) + 1, loud |-> FALSE,
                 elapsed |-> elapsed]
           ss == IF vad.silence_start = -1 THEN vad.now
                 ELSE vad.silence_start
           past_silence == vad.now - ss >= vad.silence_duration
           past_min == PastMin(elapsed, vad.min_duration)
       IN  vad' = IF ~vad.speech_started
                    THEN [vad EXCEPT !.chunks = Append(@, c)]
                  ELSE IF past_silence /\ past_min
                    THEN [vad EXCEPT !.chunks = Append(@, c),
                                     !.silence_start = ss,
                                     !.vpc = "closing", !.stop = "silence"]
                  ELSE [vad EXCEPT !.chunks = Append(@, c),
                                   !.silence_start = ss]
    /\ UNCHANGED notVad

\* line 53: the stream is exhausted and the for loop ends
VadStreamEnds ==
    /\ vad.vpc = "recording"
    /\ vad' = [vad EXCEPT !.vpc = "closing", !.stop = "exhausted"]
    /\ UNCHANGED notVad

\* lines 53 and 84-85: the stream raises; the finally block closes it and
\* the exception leaves record_until_silence
VadStreamRaises ==
    /\ vad.vpc = "recording"
    /\ vad' = [vad EXCEPT !.vpc = "raised", !.stop = "raised"]
    /\ UNCHANGED notVad

\* lines 84-89: stream.close() and the return of the joined chunks
VadReturn ==
    /\ vad.vpc = "closing"
    /\ vad' = [vad EXCEPT !.vpc = "done", !.result = Join(vad.chunks)]
    /\ UNCHANGED notVad

VadInit ==
    /\ PipeIdle
    /\ router = RouterIdle
    /\ llm = LlmIdle
    /\ store = StoreIdle
    /\ web = WebIdle
    /\ reminder = ReminderIdle
    /\ media = MediaIdle
    /\ \E sd \in VadSilenceDurations, mn \in VadMinDurations,
          mx \in VadMaxDurations, req \in VadSpeechChunksRequired :
         vad = [VadIdle EXCEPT !.silence_duration = sd, !.min_duration = mn,
                               !.max_duration = mx,
                               !.speech_chunks_required = req]

VadNext ==
    \/ VadStart
    \/ VadTick
    \/ VadMaxReached
    \/ VadLoud
    \/ VadQuiet
    \/ VadStreamEnds
    \/ VadStreamRaises
    \/ VadReturn

VadSpec == VadInit /\ [][VadNext]_vars

(* ---------------- properties of the recording ---------------- *)
\* C20: a chunk received when the elapsed time has reached max_duration is
\* the last chunk consumed, loud or not and speech started or not: the
\* recording stops there; and what is returned is the consumed chunks
\* joined in the order of the stream.
MaxDurationStops ==
    LET n == Len(vad.chunks)
        Late(i) == vad.chunks[i].elapsed >= vad.max_duration
    IN  /\ \A i \in 1..n : Late(i) => i = n
        /\ (n > 0 /\ Late(n)) =>
             /\ vad.vpc \in {"closing", "done"}
             /\ vad.stop = "max"
        /\ vad.vpc = "done" =>
             /\ Len(vad.result) = n
             /\ \A i \in 1..n : vad.result[i] = i /\ vad.chunks[i].id = i

\* continuous speech cut at max_duration: three loud chunks, returned in
\* order
MaxDurationWitness ==
    /\ vad.vpc = "done"
    /\ vad.stop = "max"
    /\ Len(vad.chunks) = 3
    /\ \A i \in 1..3 : vad.chunks[i].loud
    /\ vad.speech_started
    /\ vad.result = <<1, 2, 3>>

\* the chunks whose energy was looked at: all but one that hit max_duration
Examined(i) == vad.chunks[i].elapsed < vad.max_duration

\* the first chunk of the run of below-threshold chunks that ends the list
QuietRunStart ==
    LET n == Len(vad.chunks)
        Starts == {i \in 1..n : \A j \in i..n : ~vad.chunks[j].loud}
    IN  CHOOSE i \in Starts : \A k \in Starts : i <= k

SpeechNeedsSuccessive ==
    vad.speech_started =>
      \/ vad.speech_chunks_required <= 0
      \/ \E i \in 1..Len(vad.chunks) :
           /\ i >= vad.speech_chunks_required
           /\ \A j \in (i - vad.speech_chunks_required + 1)..i :
                vad.chunks[j].loud /\ Examined(j)


(***************************************************************************)
(* Part 5: the telemetry store (src/src/telemetry/store.py).  The store is *)
(* what its connection sees: rows inserted or deleted by a call that       *)
(* raised before its commit stay pending on the connection and are         *)
(* committed by the next call.  Sessions are saved one after the other by  *)
(* the pipeline thread, so started_at grows with the session number.       *)
(***************************************************************************)
\* sessions the database file holds when the store is opened, and
\* save_session calls made afterwards
MaxStoredAtStart == 21
MaxSaves == 3

\* the shape of session i: it has i mod 3 exchanges, and exchange j of it
\* has (i + j) mod 2 LLM calls
SessionRow(i) == [id |-> i, started_at |-> i]
ExchangeRows(i) == {[id |-> <<i, j>>, session_id |-> i] : j \in 1..(i % 3)}
LlmCallRows(i) ==
    {[id |-> <<i, j, 1>>, exchange_id |-> <<i, j>>] :
        j \in {x \in 1..(i % 3) : (i + x) % 2 = 1}}

\* lines 88-108, the inserts of save_session for session i
InsertSession(st, i) ==
    [st EXCEPT !.sessions = @ \cup {SessionRow(i)},
               !.exchanges = @ \cup ExchangeRows(i),
               !.llm_calls = @ \cup LlmCallRows(i)]

\* line 204: to_delete = max(1, total // 10)
ToDelete_floor(total) == total \div 10
ToDelete(total) == IF total \div 10 < 1 THEN 1 ELSE total \div 10

\* lines 205-209: SELECT id FROM sessions ORDER BY started_at ASC LIMIT k
OldestIds(sessions, k) ==
    {r.id : r \in {r \in sessions :
        Cardinality({o \in sessions : o.started_at < r.started_at}) < k}}

\* lines 212-224: the three DELETE statements, each as SQLite runs it on
\* the rows the connection sees at that point
DeleteStep(st, table, ids) ==
    CASE table = "llm_calls" ->
           [st EXCEPT !.llm_calls =
              {c \in @ : ~\E e \in st.exchanges :
                           e.id = c.exchange_id /\ e.session_id \in ids}]
      [] table = "exchanges" ->
           [st EXCEPT !.exchanges = {e \in @ : e.session_id \notin ids}]
      [] table = "sessions" ->
           [st EXCEPT !.sessions = {r \in @ : r.id \notin ids}]

\* lines 212-224: the order of the DELETE statements
CascadeOrder_sessions_first == <<"sessions", "exchanges", "llm_calls">>
CascadeOrder == <<"llm_calls", "exchanges", "sessions">>

\* the first n DELETE statements of the cascade
RECURSIVE Cascade(_, _, _)
Cascade(st, ids, n) ==
    IF n = 0 THEN st
    ELSE DeleteStep(Cascade(st, ids, n - 1), CascadeOrder[n], ids)

\* what every save_session call records for the observer
Observe(st, op, seen, pruned) ==
    [st EXCEPT !.last_op = op, !.total = Cardinality(seen.sessions),
               !.before = seen.sessions,
               !.before_exchanges = seen.exchanges,
               !.before_llm_calls = seen.llm_calls,
               !.pruned = pruned,
               !.saved = store.saved + 1,
               !.next_id = store.next_id + 1]

\* lines 88-108 and 191-195: save_session; the file is within the limit
SaveSession ==
    /\ store.saved < MaxSaves
    /\ LET st == InsertSession(store, store.next_id) IN
       store' = Observe(st, "save", st, {})
    /\ UNCHANGED notStore

\* lines 88-108 and 191-229: save_session; the file is over the limit and
\* the oldest sessions are pruned with their exchanges and LLM calls
SaveSessionPrunes ==
    /\ store.saved < MaxSaves
    /\ LET st == InsertSession(store, store.next_id)
           ids == OldestIds(st.sessions, ToDelete(Cardinality(st.sessions)))
       IN  store' = Observe(Cascade(st, ids, 3), "prune", st,
                            {r \in st.sessions : r.id \in ids})
    /\ UNCHANGED notStore

\* lines 191-237: a statement of the pruning raises after n of the DELETE
\* statements ran; the except of line 236 swallows it
SaveSessionPruneFails ==
    /\ store.saved < MaxSaves
    /\ \E n \in 0..2 :
         LET st == InsertSession(store, store.next_id)
             ids == OldestIds(st.sessions,
                              ToDelete(Cardinality(st.sessions)))
         IN  store' = Observe(Cascade(st, ids, n), "prune_failed", st, {})
    /\ UNCHANGED notStore

\* lines 88-106: an INSERT raises: the rows inserted before it stay pending
\* (the session row alone, or with its exchanges but no LLM call), the
\* exception leaves save_session and _maybe_prune is not reached
SaveSessionFails ==
    /\ store.saved < MaxSaves
    /\ \E part \in {"none", "session", "exchanges"} :
         LET i == store.next_id
             st == CASE part = "none" -> store
                      [] part = "session" ->
                           [store EXCEPT !.sessions = @ \cup {SessionRow(i)}]
                      [] part = "exchanges" ->
                           [store EXCEPT
                              !.sessions = @ \cup {SessionRow(i)},
                              !.exchanges = @ \cup ExchangeRows(i)]
         IN  store' = Observe(st, "save_failed", st, {})
    /\ UNCHANGED notStore

RECURSIVE Populate(_, _)
Populate(st, n) ==
    IF n = 0 THEN st ELSE InsertSession(Populate(st, n - 1), n)

StoreInit ==
    /\ PipeIdle
    /\ router = RouterIdle
    /\ llm = LlmIdle
    /\ vad = VadIdle
    /\ web = WebIdle
    /\ reminder = ReminderIdle
    /\ media = MediaIdle
    /\ \E n \in 0..MaxStoredAtStart :
         store = [Populate(StoreIdle, n) EXCEPT !.next_id = n + 1]

StoreNext ==
    \/ SaveSession
    \/ SaveSessionPrunes
    \/ SaveSessionPruneFails
    \/ SaveSessionFails

StoreSpec == StoreInit /\ [][StoreNext]_vars

(* ---------------- properties of the store ---------------- *)
\* C23: no orphans: every exchanges row references a sessions row and
\* every llm_calls row references an exchanges row.
NoOrphans ==
    /\ \A e \in store.exchanges :
         \E r \in store.sessions : r.id = e.session_id
    /\ \A c \in store.llm_calls :
         \E e \in store.exchanges : e.id = c.exchange_id

\* a pruning removed sessions that had exchanges and LLM calls, and rows
\* of all three tables remain
NoOrphansWitness ==
    /\ store.last_op = "prune"
    /\ \E r \in store.pruned :
         \E c \in store.before_llm_calls : c.exchange_id[1] = r.id
    /\ store.sessions # {} /\ store.exchanges # {} /\ store.llm_calls # {}

\* the rows a pruning must leave: those of the sessions it did not remove
PruneCascades ==
    LET ids == {r.id : r \in store.pruned} IN
    /\ store.sessions = store.before \ store.pruned
    /\ store.exchanges =
         {e \in store.before_exchanges : e.session_id \notin ids}
    /\ store.llm_calls =
         {c \in store.before_llm_calls : c.exchange_id[1] \notin ids}
    /\ \A d \in store.pruned : \A r \in store.sessions :
         d.started_at < r.started_at

\* C24 as stated: a pruning removes the oldest sessions with their
\* exchanges and LLM calls, no other row, and never more than 10% of the
\* sessions stored.
PruneAtMostTenth ==
    store.last_op = "prune" =>
      /\ PruneCascades
      /\ 10 * Cardinality(store.pruned) <= store.total

\* C24, amended: a pruning of n stored sessions removes the oldest
\* max(1, n div 10) of them with their exchanges and LLM calls and no
\* other row; that is at most 10% only from n = 10 on, and a store of
\* fewer than 10 sessions loses one session per pruning.
PruneOldestTenth ==
    store.last_op = "prune" =>
      /\ PruneCascades
      /\ Cardinality(store.pruned) =
           (IF store.total < 10 THEN 1 ELSE store.total \div 10)
      /\ store.total >= 10 => 10 * Cardinality(store.pruned) <= store.total

\* a store of 20 sessions lost its two oldest ones
PruneOldestTenthWitness ==
    /\ store.last_op = "prune"
    /\ store.total = 20
    /\ {r.id : r \in store.pruned} = {1, 2}


(***************************************************************************)
(* Part 6: GET /api/sessions of the telemetry web server (src/src/         *)
(* telemetry/web.py, _Handler._handle_sessions).  The database holds       *)
(* web.total sessions; a request carries an optional integer limit and an  *)
(* optional integer offset.                                                *)
(***************************************************************************)
\* line 105: the default and the cap of limit; line 106: the default and
\* the floor of offset
DEFAULT_LIMIT == 50
MAX_LIMIT == 200
DEFAULT_OFFSET == 0
MIN_OFFSET == 0

\* the requests and the database sizes explored
WebLimitParams == {-5, -1, 0, 1, 2, 199, 200, 201, 999}
WebOffsetParams == {-3, 0, 1, 250}
WebTotals == {0, 1, 3, 201, 250}

\* line 105: limit = min(int(params.get("limit", [50])[0]), 200)
EffectiveLimit(given, v) ==
    Min(IF given THEN v ELSE DEFAULT_LIMIT, MAX_LIMIT)

\* line 106: offset = max(int(params.get("offset", [0])[0]), 0)
EffectiveOffset(given, v) ==
    LET o == IF given THEN v ELSE DEFAULT_OFFSET IN
    IF o < MIN_OFFSET THEN MIN_OFFSET ELSE o

\* lines 113-117: the number of rows of SELECT ... LIMIT ? OFFSET ? over
\* `total` rows; SQLite puts no upper bound on the rows when the LIMIT
\* value is negative
RowsSelected(total, limit, offset) ==
    LET rest == IF total - offset < 0 THEN 0 ELSE total - offset IN
    IF limit < 0 THEN rest ELSE Min(limit, rest)

\* a request arrives (do_GET, lines 28-38)
WebRequest ==
    /\ web.wpc = "idle"
    /\ \E lg \in BOOLEAN, lv \in WebLimitParams,
          og \in BOOLEAN, ov \in WebOffsetParams :
         web' = [web EXCEPT
            !.wpc = "request",
            !.limit_given = lg, !.limit_param = IF lg THEN lv ELSE 0,
            !.offset_given = og, !.offset_param = IF og THEN ov ELSE 0]
    /\ UNCHANGED notWeb

\* lines 104-170: the handler computes limit and offset, selects the rows
\* and sends them with the limit and offset it used
HandleSessions ==
    /\ web.wpc = "request"
    /\ LET limit == EffectiveLimit(web.limit_given, web.limit_param)
           offset == EffectiveOffset(web.offset_given, web.offset_param)
       IN  web' = [web EXCEPT
              !.wpc = "done", !.limit = limit, !.offset = offset,
              !.returned = RowsSelected(web.total, limit, offset)]
    /\ UNCHANGED notWeb

WebInit ==
    /\ PipeIdle
    /\ router = RouterIdle
    /\ llm = LlmIdle
    /\ vad = VadIdle
    /\ store = StoreIdle
    /\ reminder = ReminderIdle
    /\ media = MediaIdle
    /\ \E n \in WebTotals : web = [WebIdle EXCEPT !.total = n]

WebNext ==
    \/ WebRequest
    \/ HandleSessions

WebSpec == WebInit /\ [][WebNext]_vars

(* ---------------- properties of the handler ---------------- *)
\* C25: the response holds at most min(limit, 200) sessions (none for a
\* limit below 0), where limit is the requested value or 50; it reports a
\* limit of at most 200 and an offset of at least 0, which are 50 and 0
\* when the parameters are absent.
SessionsPageBounded ==
    web.wpc = "done" =>
      LET asked == IF web.limit_given THEN web.limit_param ELSE 50 IN
      /\ web.returned <=
           (IF asked < 0 THEN 0 ELSE IF asked < 200 THEN asked ELSE 200)
      /\ web.returned <= 200
      /\ web.limit <= 200
      /\ web.offset >= 0
      /\ ~web.limit_given => web.limit = 50
      /\ ~web.offset_given => web.offset = 0

(* ================================================================== *)
(* Part 7: the pipeline under failing synthesis and failing telemetry *)
(* ================================================================== *)

\* C26: when TTS synthesis raises, the failure stays in the Exchange: the
\* exchange keeps the response text of the routing (the text is there
\* whenever the telemetry calls of the routing phase went through) and
\* gets an error,
\* no playback is started, the retry counter keeps its value, and the
\* command loop is left through wake.reset() and the session save to the
\* top of the outer loop, which listens again while running is set: each
\* step the thread takes from there goes to the next of these places.
TtsFailureContained ==
    /\ [][(pc = "tts" /\ raisedStage' = "tts") =>
            /\ pc' = "ret_false"
            /\ consecutive_errors' = consecutive_errors
            /\ playing' = playing
            /\ exchange'.response_text = exchange.response_text
            /\ exchange'.started = exchange.started
            /\ exchange.present => exchange'.error = "TTS error"]_vars
    /\ []((raisedStage = "tts" /\ pc = "ret_false" /\ exchange.present)
            => /\ "playback" \notin exchange.started
               /\ ~phase_raises => exchange.response_text)
    /\ [][(raisedStage = "tts" /\ pc = "ret_false" /\ pc' # pc) =>
            (pc' = "post_cmd"
             /\ consecutive_errors' = consecutive_errors)]_vars
    /\ [][(raisedStage = "tts" /\ pc = "post_cmd" /\ pc' # pc) =>
            (pc' = "loop_top"
             /\ consecutive_errors' = consecutive_errors)]_vars
    /\ [][(raisedStage = "tts" /\ pc = "loop_top" /\ running
             /\ pc' # pc) =>
            (pc' = "wake_next"
             /\ consecutive_errors' = consecutive_errors)]_vars

\* after a synthesis failure the next wake word was detected, with the
\* failed exchange still carrying its response text and the error
TtsFailureWitness ==
    /\ pc = "ack"
    /\ wake_detected
    /\ raisedStage = "tts"
    /\ exchange.present
    /\ exchange.response_text
    /\ exchange.error = "TTS error"
    /\ consecutive_errors = 0

\* C27: a raising telemetry call (Session(...), create_exchange, a phase
\* call, session.finish or save_session) never changes the control flow:
\* whatever the telemetry calls do, a detection goes on to the command, a
\* command whose stages do not raise is transcribed, routed and spoken as
\* its text, the configuration and the router decide, the retry counter
\* keeps its value, and the end of the command loop goes back to the top
\* of the outer loop, which listens again while running is set.
TelemetryFailureHarmless ==
    /\ [][(pc = "wake_detect" /\ wake_detected') =>
            (pc' = "ack" /\ consecutive_errors' = consecutive_errors)]_vars
    /\ [][(pc = "cmd_start" /\ pc' # pc) =>
            (pc' = "capture" /\ consecutive_errors' = consecutive_errors)]_vars
    /\ [][(pc = "stt" /\ pc' # pc /\ raisedStage' = "none") =>
            /\ pc' = IF text' \in {"None", "", " "} THEN "ret_false"
                     ELSE "route"
            /\ consecutive_errors' = consecutive_errors]_vars
    /\ [][(pc = "route" /\ pc' # pc /\ raisedStage' = "none") =>
            (pc' = "tts" /\ consecutive_errors' = consecutive_errors)]_vars
    /\ [][(pc = "tts" /\ pc' # pc /\ raisedStage' = "none") =>
            /\ pc' = IF config.bargein_enabled THEN "play_streamed"
                     ELSE "play"
            /\ consecutive_errors' = consecutive_errors]_vars
    /\ [][(pc = "play" /\ pc' # pc /\ raisedStage' = "none") =>
            /\ pc' = IF expects_follow_up THEN "ret_true" ELSE "ret_false"
            /\ consecutive_errors' = consecutive_errors]_vars
    /\ [][(pc = "play_streamed" /\ pc' # pc /\ raisedStage' = "none") =>
            /\ pc' = "mon_next"
            /\ playing'
            /\ consecutive_errors' = consecutive_errors]_vars
    /\ [][(pc = "post_cmd" /\ pc' # pc) =>
            (pc' = "loop_top"
             /\ consecutive_errors' = consecutive_errors)]_vars
    /\ [][(pc = "loop_top" /\ running /\ pc' # pc) => pc' = "wake_next"]_vars

\* the command loop was left with the retry counter at 0 after a session
\* in which create_exchange raised for the first command, which was
\* spoken and followed by a second one, the phase calls of the second
\* command raised, and session.finish raised
TelemetryFailureWitness ==
    /\ pc = "loop_top"
    /\ wake_detected
    /\ consecutive_errors = 0
    /\ failRun = 0
    /\ session.present
    /\ ~session.ended_at
    /\ cmds = 2
    /\ follow_ups = 1
    /\ Len(session.exchanges) = 1
    /\ exchange.present
    /\ phase_raises
    /\ exchange.started = {}
    /\ raisedStage = "none"

\* C28: with a PromptCache and feedback enabled, an acknowledgement clip is
\* played before the first capture after a wake detection, and before a
\* further capture of the session exactly when the last-matched feature
\* does not expect a follow-up.
AckBeforeCapture ==
    (pc = "cmd_start" /\ config.wake_feedback)
        => (ack_played <=> (follow_ups = 0 \/ ~feature_expects))

\* C29: an Exchange has is_follow_up set if and only if the router expected
\* a follow-up after some earlier exchange of the same session.
FollowUpIffExpected ==
    (pc \in {"capture", "stt", "route"} /\ exchange.present)
        => (exchange.is_follow_up <=> any_expected)

\* C30: every Exchange the pipeline created has as sequence its index in
\* the exchange list of its session, and has is_follow_up set if and only
\* if its sequence is above 0.
SequenceIsIndex ==
    /\ \A i \in 1..Len(session.exchanges) :
         /\ session.exchanges[i].sequence = i - 1
         /\ session.exchanges[i].is_follow_up <=> (i - 1 > 0)
    /\ (pc \in {"capture", "stt", "route", "tts", "play", "play_streamed"}
          /\ exchange.present)
         => /\ Len(session.exchanges) = exchange.sequence + 1
            /\ exchange.is_follow_up <=> (exchange.sequence > 0)

\* C31: when a command returns, its Exchange has had_bargein set if and
\* only if wake.detect gave a positive on a chunk of the playback
\* monitoring of that command (bargeSeq starts with that detection and is
\* empty otherwise).
BargeinRecorded ==
    (pc \in {"ret_true", "ret_false"} /\ exchange.present)
        => (exchange.had_bargein <=> (bargeSeq # <<>>))

\* C32: once a command is over, every phase of its Exchange whose start
\* was recorded has its end recorded too (end_phase records the end
\* timestamp and the duration together), also when a stage raised.
PhasesClosed ==
    (exchange.present
       /\ pc \in {"ret_true", "ret_false", "post_cmd", "loop_top", "stopped"})
        => exchange.started \subseteq exchange.ended

(* ---------------- the recording of a silent stream ---------------- *)
\* every chunk consumed so far is below the threshold
AllQuiet == \A i \in 1..Len(vad.chunks) : ~vad.chunks[i].loud

LoopStep ==
    \/ PlaybackEnds
    \/ LoopTop
    \/ WakeChunk
    \/ WakeStreamFails
    \/ WakeRunning
    \/ WakeDetect
    \/ WakeDetectFails
    \/ Ack
    \/ AckFails
    \/ CmdStart
    \/ CaptureChunk
    \/ CaptureDone
    \/ CaptureFails
    \/ Stt
    \/ SttFails
    \/ Route
    \/ RouteFails
    \/ Tts
    \/ TtsFails
    \/ Play
    \/ PlayFails
    \/ PlayStreamed
    \/ PlayStreamedFails
    \/ MonChunk
    \/ MonStreamFails
    \/ MonPlaying
    \/ MonDetect
    \/ MonDetectFails
    \/ MonStop
    \/ MonStopFails
    \/ MonReset
    \/ MonFinally
    \/ RetTrue
    \/ RetTrueAckFails
    \/ RetFalse
    \/ PostCmd

\* the pipelines started without a telemetry store (the telemetry calls
\* decide nothing about the control flow)
LiveInit == Init /\ ~config.telemetry

\* the thread is scheduled, streams keep yielding chunks and every
\* blocking call returns or raises: a thread that can step does step
LiveSpec == LiveInit /\ [][Next]_vars /\ WF_vars(LoopStep)

MaxReminders == 2
MaxReminderTime == 2
MaxReminderOps == 3
ReminderDues == {0, 2}

ReminderIds == 1..MaxReminders
Ids(items) == {r.id : r \in items}

\* line 506: if due_time <= now
IsDue(due, now) == due <= now

\* datetime.now() moves on
ReminderTick ==
    /\ reminder.now < MaxReminderTime
    /\ reminder' = [reminder EXCEPT !.now = @ + 1]
    /\ UNCHANGED notReminder

\* lines 494-509: now = datetime.now(); items = self._load(); the split
\* into due_items and remaining.  With nothing due the cycle is over
\* (line 511).
CheckLoad ==
    /\ reminder.cpc = "idle"
    /\ LET due == {r \in reminder.file : IsDue(r.due, reminder.now)} IN
       reminder' = IF due = {}
                     THEN [reminder EXCEPT !.c_now = 0, !.c_items = {},
                                           !.c_due = {}, !.c_remaining = {}]
                     ELSE [reminder EXCEPT
                             !.cpc = "save", !.c_now = reminder.now,
                             !.c_items = reminder.file, !.c_due = due,
                             !.c_remaining = reminder.file \ due]
    /\ UNCHANGED notReminder

\* line 512: self._save(remaining)
CheckSave ==
    /\ reminder.cpc = "save"
    /\ reminder' = [reminder EXCEPT
          !.file = reminder.c_remaining, !.cpc = "fire",
          !.raced = @ \/ reminder.ppc # "idle"]
    /\ UNCHANGED notReminder

\* lines 513-519: the next due item is passed to on_due; a callback that
\* raises is logged and the loop goes on
CheckFire ==
    /\ reminder.cpc = "fire"
    /\ \E r \in reminder.c_due, raises \in BOOLEAN :
         reminder' = [reminder EXCEPT
            !.fired = Append(@, r.id),
            !.raised = IF raises THEN @ \cup {r.id} ELSE @,
            !.c_due = @ \ {r},
            !.cpc = IF reminder.c_due = {r} THEN "done" ELSE "fire"]
    /\ UNCHANGED notReminder

\* _check_due returns; the checker waits for the next interval (line 490)
CheckEnd ==
    /\ reminder.cpc = "done"
    /\ reminder' = [reminder EXCEPT !.cpc = "idle", !.c_now = 0,
                                    !.c_items = {}, !.c_remaining = {}]
    /\ UNCHANGED notReminder

\* line 315: _set starts with items = self._load()
SetLoad ==
    /\ reminder.ppc = "idle"
    /\ reminder.ops < MaxReminderOps
    /\ \E id \in ReminderIds \ reminder.used, due \in ReminderDues :
         reminder' = [reminder EXCEPT
            !.ppc = "set", !.p_items = reminder.file,
            !.p_arg = [id |-> id, due |-> due],
            !.used = @ \cup {id}, !.ops = @ + 1]
    /\ UNCHANGED notReminder

\* lines 316-322: items.append(item); self._save(items)
SetSave ==
    /\ reminder.ppc = "set"
    /\ reminder' = [reminder EXCEPT
          !.file = reminder.p_items \cup {reminder.p_arg},
          !.added = @ \cup {reminder.p_arg.id},
          !.ppc = "idle", !.p_items = {},
          !.p_arg = [id |-> 0, due |-> 0],
          !.raced = @ \/ reminder.cpc = "save"]
    /\ UNCHANGED notReminder

\* lines 340-364: _cancel loads the items and looks for the one meant;
\* without a match nothing is saved
CancelLoad ==
    /\ reminder.ppc = "idle"
    /\ reminder.ops < MaxReminderOps
    /\ \E target \in ReminderIds :
         IF target \in Ids(reminder.file)
           THEN reminder' = [reminder EXCEPT
                   !.ppc = "cancel", !.p_items = reminder.file,
                   !.p_arg = CHOOSE r \in reminder.file : r.id = target,
                   !.ops = @ + 1]
           ELSE reminder' = [reminder EXCEPT !.ops = @ + 1]
    /\ UNCHANGED notReminder

\* lines 347-349 / 356-358: items.pop(i); self._save(items)
CancelSave ==
    /\ reminder.ppc = "cancel"
    /\ reminder' = [reminder EXCEPT
          !.file = reminder.p_items \ {reminder.p_arg},
          !.removed = @ \cup {reminder.p_arg.id},
          !.ppc = "idle", !.p_items = {},
          !.p_arg = [id |-> 0, due |-> 0],
          !.raced = @ \/ reminder.cpc = "save"]
    /\ UNCHANGED notReminder

\* lines 366-368: _clear is self._save([])
Clear ==
    /\ reminder.ppc = "idle"
    /\ reminder.ops < MaxReminderOps
    /\ reminder' = [reminder EXCEPT
          !.file = {},
          !.removed = @ \cup reminder.added \cup Ids(reminder.file),
          !.ops = @ + 1,
          !.raced = @ \/ reminder.cpc = "save"]
    /\ UNCHANGED notReminder

\* the file found at start: empty, or one reminder, overdue or not
ReminderInit ==
    /\ PipeIdle
    /\ router = RouterIdle
    /\ llm = LlmIdle
    /\ vad = VadIdle
    /\ store = StoreIdle
    /\ web = WebIdle
    /\ media = MediaIdle
    /\ \E f \in {{}} \cup {{[id |-> 1, due |-> d]} : d \in ReminderDues} :
         reminder = [ReminderIdle EXCEPT !.file = f, !.used = Ids(f)]

ReminderNext ==
    \/ ReminderTick
    \/ CheckLoad
    \/ CheckSave
    \/ CheckFire
    \/ CheckEnd
    \/ SetLoad
    \/ SetSave
    \/ CancelLoad
    \/ CancelSave
    \/ Clear

ReminderSpec == ReminderInit /\ [][ReminderNext]_vars

(* ---------------- properties of the reminders ---------------- *)
\* C35: at the end of a check cycle every reminder the cycle found stored
\* with a due time at or before its now has been passed to on_due and is
\* out of the file, also one that was overdue at start and also after a
\* callback raised; and every reminder it found not yet due is still in
\* the file unless it was cancelled or cleared.
DueFiredAndRemoved ==
    reminder.cpc = "done" =>
      \A r \in reminder.c_items :
        IF r.due <= reminder.c_now
          THEN /\ \E i \in 1..Len(reminder.fired) : reminder.fired[i] = r.id
               /\ r \notin reminder.file
          ELSE r \in reminder.file \/ r.id \in reminder.removed

\* C38: under every interleaving of the checker with _set, _cancel and
\* _clear, a reminder added by _set is in the file until it is fired,
\* cancelled or cleared, and no reminder is fired twice.
NoLostUpdate ==
    /\ \A id \in reminder.added :
         \/ id \in Ids(reminder.file)
         \/ id \in reminder.removed
         \/ id \in Ids(reminder.c_due)
         \/ \E i \in 1..Len(reminder.fired) : reminder.fired[i] = id
    /\ \A i, j \in 1..Len(reminder.fired) :
         reminder.fired[i] = reminder.fired[j] => i = j

(***************************************************************************)
(* Part 9: the media feature (src/src/features/media.py).  The record      *)
(* media holds the configured clients, the pending disambiguation          *)
(* (results, index, phase, timestamp; pending = FALSE is _pending = None), *)
(* the clock read by time.time(), and the library of the Radarr and Sonarr *)
(* clients.  A result is named by its id; Catalogue gives its media_type,  *)
(* its year and the score _title_relevance gives its title for the search  *)
(* term (in tenths).  presented, adds and last are observations: the       *)
(* results _describe_current has described since the search, the           *)
(* add_movie / add_series calls made, and the handler that ran last.       *)
(***************************************************************************)
MaxMediaOps == 3
MaxMediaTime == 2

\* the media_disambiguation_ttl of line 132, in ticks of the clock
MediaTtl == 1

MediaIds == 1..5

Catalogue ==
    [id \in MediaIds |->
       CASE id = 1 -> [media_type |-> "movie", year |-> 2, rel |-> 6]
         [] id = 2 -> [media_type |-> "movie", year |-> 1, rel |-> 6]
         [] id = 3 -> [media_type |-> "show", year |-> 2, rel |-> 4]
         [] id = 4 -> [media_type |-> "show", year |-> 1, rel |-> 4]
         [] OTHER -> [media_type |-> "movie", year |-> 1, rel |-> 8]]

MediaYears == {1, 2}

\* the sort key of lines 487-490 and 697-700: (relevance, year)
RelevanceKey(id) == Catalogue[id].rel * 10 + Catalogue[id].year

RECURSIVE SortByRelevance(_)
SortByRelevance(S) ==
    IF S = {} THEN <<>>
    ELSE LET top == CHOOSE x \in S : \A y \in S : RelevanceKey(y) <= RelevanceKey(x)
         IN <<top>> \o SortByRelevance(S \ {top})

SeqIds(q) == {q[i] : i \in 1..Len(q)}

OfType(t, S) == {id \in S : Catalogue[id].media_type = t}

\* line 685: a stable sort by year, newest first
SortByYear(q) ==
    LET OfYear(id) == Catalogue[id].year = 2
        NotOfYear(id) == Catalogue[id].year # 2
    IN SelectSeq(q, OfYear) \o SelectSeq(q, NotOfYear)

FirstThree(q) == SubSeq(q, 1, IF Len(q) < 3 THEN Len(q) ELSE 3)

\* _is_expired, lines 624-628
IsExpired_ge(m) == ~m.pending \/ (m.now - m.timestamp) >= MediaTtl
IsExpired(m) == ~m.pending \/ (m.now - m.timestamp) > MediaTtl

\* expects_follow_up, lines 163-165
MediaExpectsFollowUp(m) == m.pending /\ ~IsExpired(m)

\* get_llm_context, lines 266-294: no context (None), or the one text of
\* the results, the marked current one and the phase
GetLlmContext(m) ==
    IF ~m.pending \/ IsExpired(m) THEN {}
    ELSE {[results |-> m.results,
           current |-> IF m.phase = "confirming" THEN m.index + 1 ELSE 0,
           phase |-> m.phase]}

\* self._pending = None
ClearPending(m) ==
    [m EXCEPT !.pending = FALSE, !.results = <<>>, !.index = 0,
              !.phase = "none", !.timestamp = 0]

\* _is_result_tracked, lines 540-547
IsResultTracked(m, id) ==
    \/ Catalogue[id].media_type = "movie" /\ m.has_radarr /\ id \in m.lib
    \/ Catalogue[id].media_type = "show" /\ m.has_sonarr /\ id \in m.lib

\* _describe_current, lines 549-563
DescribeCurrent(m) ==
    [m EXCEPT !.presented = @ \cup {m.results[m.index + 1]}]

\* lines 572-573: every result from the index on is tracked
AllTracked_keep(m) == m
AllTracked(m) == ClearPending(m)

\* _describe_current_with_skip, lines 565-573
RECURSIVE DescribeCurrentWithSkip(_)
DescribeCurrentWithSkip(m) ==
    IF m.index < Len(m.results)
      THEN IF ~IsResultTracked(m, m.results[m.index + 1])
             THEN DescribeCurrent(m)
             ELSE DescribeCurrentWithSkip([m EXCEPT !.index = @ + 1])
      ELSE AllTracked(m)

\* _confirm_pending, lines 575-593; ok is the absence of "error" in the
\* client's answer
ConfirmPending(m, ok) ==
    LET id == m.results[m.index + 1]
        call == [id |-> id, phase |-> m.phase, presented |-> id \in m.presented]
        has == IF Catalogue[id].media_type = "movie" THEN m.has_radarr
               ELSE m.has_sonarr
        c == [ClearPending(m) EXCEPT !.last = "confirm"]
    IN IF has
         THEN [c EXCEPT !.adds = Append(@, call),
                        !.lib = IF ok THEN @ \cup {id} ELSE @]
         ELSE c

\* the bound check of lines 600 and 612
PastLast(m) == m.index >= Len(m.results)

\* _next_pending, lines 595-617
NextPending(m) ==
    LET m1 == [m EXCEPT !.index = @ + 1, !.timestamp = m.now, !.last = "skip"]
    IN IF PastLast(m1) THEN [ClearPending(m1) EXCEPT !.last = "skip_end"]
       ELSE IF IsResultTracked(m1, m1.results[m1.index + 1])
         THEN LET m2 == [m1 EXCEPT !.index = @ + 1]
              IN IF PastLast(m2) THEN [ClearPending(m2) EXCEPT !.last = "skip_end"]
                 ELSE DescribeCurrent(m2)
         ELSE DescribeCurrent(m1)

\* _cancel_pending, lines 619-622
CancelPending(m) == [ClearPending(m) EXCEPT !.last = "cancel"]

\* _select, lines 248-264; index is 1-based
Select(m, index) ==
    IF ~m.pending \/ IsExpired(m) THEN [m EXCEPT !.last = "none"]
    ELSE IF index - 1 < 0 \/ index - 1 >= Len(m.results)
      THEN [m EXCEPT !.last = "none"]
    ELSE LET m1 == [m EXCEPT !.index = index - 1, !.phase = "confirming",
                             !.timestamp = m.now, !.last = "select"]
         IN IF IsResultTracked(m1, m1.results[index])
              THEN ClearPending(m1)
              ELSE DescribeCurrent(m1)

\* what the patterns of lines 22-25 find in a refinement text
NoRefinement == [year |-> 0, type |-> "none", recent |-> FALSE]

\* _apply_refinement, lines 666-723
ApplyRefinement(m, txt) ==
    LET InYear(id) == Catalogue[id].year = txt.year
        IsType(id) == Catalogue[id].media_type = txt.type
        f1 == IF txt.year \in MediaYears THEN SelectSeq(m.results, InYear)
              ELSE m.results
        f2 == IF txt.type \in {"movie", "show"} THEN SelectSeq(f1, IsType)
              ELSE f1
        f3 == IF txt.recent THEN FirstThree(SortByYear(f2)) ELSE f2
        filtered == SortByRelevance(SeqIds(f3))
        m1 == [m EXCEPT !.results = filtered, !.index = 0,
                        !.timestamp = m.now, !.last = "refine"]
    IN IF filtered = <<>> THEN [ClearPending(m) EXCEPT !.last = "refine"]
       ELSE IF Len(filtered) = 1
         THEN IF IsResultTracked(m1, filtered[1]) THEN ClearPending(m1)
              ELSE DescribeCurrent([m1 EXCEPT !.phase = "confirming"])
       ELSE IF Len(filtered) <= 3
         THEN DescribeCurrentWithSkip([m1 EXCEPT !.phase = "confirming"])
       ELSE m1

\* the first result that is not tracked, lines 516-527 (0 when all are)
FirstUntracked(m, q) ==
    IF \E i \in 1..Len(q) : ~IsResultTracked(m, q[i])
      THEN CHOOSE i \in 1..Len(q) :
             /\ ~IsResultTracked(m, q[i])
             /\ \A j \in 1..(i - 1) : IsResultTracked(m, q[j])
      ELSE 0

\* _start_disambiguation, lines 482-538; S is the non-empty search result
StartDisambiguation(m, S) ==
    LET results == SortByRelevance(S)
        top_score == Catalogue[results[1]].rel
        p == [m EXCEPT !.pending = TRUE, !.results = results, !.index = 0,
                       !.timestamp = m.now, !.presented = {}]
    IN IF Len(results) >= 4 /\ top_score < 8
         THEN [p EXCEPT !.phase = "refining"]
       ELSE IF IsResultTracked(m, results[1])
         THEN IF Len(results) = 1 \/ FirstUntracked(m, results) = 0 THEN m
              ELSE DescribeCurrent([p EXCEPT !.phase = "confirming",
                                             !.index = FirstUntracked(m, results) - 1])
       ELSE DescribeCurrent([p EXCEPT !.phase = "confirming"])

\* _track_movie, _track_show and _track_generic, lines 436-478; S is what
\* the clients' searches return
Track(m, media_type, S) ==
    LET c == [ClearPending(m) EXCEPT !.last = "track"]
        found == (IF media_type # "show" /\ m.has_radarr THEN OfType("movie", S) ELSE {})
                 \cup (IF media_type # "movie" /\ m.has_sonarr THEN OfType("show", S) ELSE {})
    IN IF found = {} THEN c ELSE StartDisambiguation(c, found)

\* _list_movies and _list_shows, lines 377-395
List(m) == [ClearPending(m) EXCEPT !.last = "list"]

\* _check_title, lines 413-432
CheckTitle(m) == [ClearPending(m) EXCEPT !.last = "check"]

\* _status, lines 727-740
Status(m) == [m EXCEPT !.last = "status"]

MediaActions ==
    {"confirm", "skip", "cancel", "select", "refine_year", "refine_type",
     "refine_recent", "list", "check", "track", "status"}

\* the test of line 184: no test of the phase
ConfirmGuard(m) == m.pending /\ ~IsExpired(m)

\* execute, lines 182-246
Execute(m, action, p) ==
    CASE action = "confirm" ->
           IF ~ConfirmGuard(m) THEN [m EXCEPT !.last = "none"]
           ELSE ConfirmPending(m, p.ok)
      [] action = "skip" ->
           IF ~m.pending \/ IsExpired(m) THEN [m EXCEPT !.last = "none"]
           ELSE NextPending(m)
      [] action = "cancel" ->
           IF ~m.pending \/ IsExpired(m) THEN [m EXCEPT !.last = "none"]
           ELSE CancelPending(m)
      [] action = "select" -> Select(m, p.index)
      [] action = "refine_year" ->
           IF ~m.pending \/ IsExpired(m) THEN [m EXCEPT !.last = "none"]
           ELSE ApplyRefinement(m, [NoRefinement EXCEPT !.year = p.year])
      [] action = "refine_type" ->
           IF ~m.pending \/ IsExpired(m) THEN [m EXCEPT !.last = "none"]
           ELSE ApplyRefinement(m, [NoRefinement EXCEPT !.type = p.media_type])
      [] action = "refine_recent" ->
           IF ~m.pending \/ IsExpired(m) THEN [m EXCEPT !.last = "none"]
           ELSE ApplyRefinement(m, [NoRefinement EXCEPT !.recent = TRUE])
      [] action = "list" ->
           IF p.media_type \in {"movie", "show"} \/ m.has_radarr \/ m.has_sonarr
             THEN List(m)
             ELSE [m EXCEPT !.last = "none"]
      [] action = "check" -> CheckTitle(m)
      [] action = "track" -> Track(m, p.media_type, p.found)
      [] OTHER -> Status(m)

\* what the patterns of lines 15-85 find in a text given to handle: a yes,
\* a no, a cancel, a command, a refinement
NoText == [yes |-> FALSE, no |-> FALSE, cancel |-> FALSE, cmd |-> "none",
           ref |-> NoRefinement]

MediaTexts ==
    {NoText, [NoText EXCEPT !.yes = TRUE], [NoText EXCEPT !.no = TRUE],
     [NoText EXCEPT !.cancel = TRUE]}
    \cup {[NoText EXCEPT !.cmd = k] :
            k \in {"list", "check", "track_movie", "track_show", "track"}}
    \cup {[NoText EXCEPT !.ref = [NoRefinement EXCEPT !.year = yy]] :
            yy \in MediaYears}
    \cup {[NoText EXCEPT !.ref = [NoRefinement EXCEPT !.type = t]] :
            t \in {"movie", "show"}}
    \cup {[NoText EXCEPT !.ref = [NoRefinement EXCEPT !.recent = TRUE]]}

\* the commands of lines 343-376, after the disambiguation flow
Commands(m, txt, found) ==
    LET m0 == IF m.pending /\ IsExpired(m) THEN ClearPending(m) ELSE m
    IN CASE txt.cmd = "list" -> List(m0)
         [] txt.cmd = "check" -> CheckTitle(m0)
         [] txt.cmd = "track_movie" -> Track(m0, "movie", found)
         [] txt.cmd = "track_show" -> Track(m0, "show", found)
         [] txt.cmd = "track" -> Track(m0, "any", found)
         [] OTHER -> Status(m0)

\* handle, lines 313-376
Handle(m, txt, found, ok) ==
    IF m.pending /\ ~IsExpired(m)
      THEN IF m.phase = "confirming"
             THEN IF txt.yes THEN ConfirmPending(m, ok)
                  ELSE IF txt.no THEN NextPending(m)
                  ELSE IF txt.cancel THEN CancelPending(m)
                  ELSE Commands(m, txt, found)
             ELSE IF txt.cancel THEN CancelPending(m)
                  ELSE IF txt.cmd # "none"
                    THEN Commands(ClearPending(m), txt, found)
                  ELSE IF txt.yes
                    THEN DescribeCurrentWithSkip(
                           [m EXCEPT !.phase = "confirming", !.index = 0,
                                     !.timestamp = m.now, !.last = "yes"])
                  ELSE ApplyRefinement(m, txt.ref)
      ELSE Commands(m, txt, found)

(* ---------------- the actions ---------------- *)
\* one handle() call of the router
MediaHandle ==
    /\ media.ops < MaxMediaOps
    /\ \E txt \in MediaTexts :
       \E found \in (IF txt.cmd \in {"track_movie", "track_show", "track"}
                      THEN SUBSET MediaIds ELSE {{}}),
          ok \in (IF txt.yes THEN BOOLEAN ELSE {TRUE}) :
         media' = [Handle(media, txt, found, ok) EXCEPT !.ops = media.ops + 1]
    /\ UNCHANGED notMedia

\* one execute() call of the router, with the parameters of the LLM
MediaExecute ==
    /\ media.ops < MaxMediaOps
    /\ \E action \in MediaActions :
       \E found \in (IF action = "track" THEN SUBSET MediaIds ELSE {{}}),
          ok \in (IF action = "confirm" THEN BOOLEAN ELSE {TRUE}),
          index \in (IF action = "select"
                       THEN 0..(Cardinality(MediaIds) + 1) ELSE {1}),
          year \in (IF action = "refine_year"
                      THEN {0} \cup MediaYears ELSE {0}),
          media_type \in (IF action \in {"refine_type", "list", "track"}
                            THEN {"movie", "show", "any"} ELSE {"any"}) :
         media' = [Execute(media, action,
                           [found |-> found, ok |-> ok, index |-> index,
                            year |-> year, media_type |-> media_type])
                     EXCEPT !.ops = media.ops + 1]
    /\ UNCHANGED notMedia

\* time passes between two calls
MediaTick ==
    /\ media.now < MaxMediaTime
    /\ media' = [media EXCEPT !.now = @ + 1]
    /\ UNCHANGED notMedia

MediaInit ==
    /\ PipeIdle
    /\ router = RouterIdle
    /\ llm = LlmIdle
    /\ vad = VadIdle
    /\ store = StoreIdle
    /\ web = WebIdle
    /\ reminder = ReminderIdle
    /\ \E r \in BOOLEAN, s \in BOOLEAN, lib \in {{}, {5}, {1, 3}} :
         media = [MediaIdle EXCEPT !.has_radarr = r, !.has_sonarr = s,
                                   !.lib = lib]

MediaNext == MediaHandle \/ MediaExecute \/ MediaTick

MediaSpec == MediaInit /\ [][MediaNext]_vars

(* ---------------- properties of the media feature ---------------- *)
\* C36: expects_follow_up is true exactly when a disambiguation is pending
\* and no more than the TTL has passed since its timestamp; it is false
\* initially and after a confirm, a cancel, a skip past the last result, a
\* list and a check; and get_llm_context gives a context exactly when
\* expects_follow_up is true.
FollowUpWhilePending ==
    /\ MediaExpectsFollowUp(media) <=>
         (media.pending /\ media.now - media.timestamp <= MediaTtl)
    /\ media.last \in {"init", "confirm", "cancel", "skip_end", "list", "check"}
         => ~MediaExpectsFollowUp(media)
    /\ (GetLlmContext(media) # {}) <=> MediaExpectsFollowUp(media)

FollowUpWhilePendingWitness ==
    /\ media.pending
    /\ media.now - media.timestamp = MediaTtl
    /\ MediaExpectsFollowUp(media)
    /\ GetLlmContext(media) # {}

\* C39: after every handle and execute call, a pending disambiguation has
\* a non-empty results list, an index inside it and a phase that is
\* refining or confirming.
PendingWellFormed ==
    media.pending =>
      /\ Len(media.results) > 0
      /\ 0 <= media.index
      /\ media.index < Len(media.results)
      /\ media.phase \in {"refining", "confirming"}

PendingWellFormedWitness ==
    /\ media.pending
    /\ media.last = "skip"
    /\ media.index = Len(media.results) - 1
    /\ media.index > 0

\* C40: every add_movie / add_series call is made while the phase is
\* confirming, for a result that was described to the user as the current
\* one.
AddsOnlyPresented ==
    \A i \in 1..Len(media.adds) :
       media.adds[i].phase = "confirming" /\ media.adds[i].presented

(* ---------------- the retry counter of the outer loop ---------------- *)
\* C37: consecutive_errors is set to 0 by every chunk read from the
\* wake-listening stream and by nothing else, so it counts the failures
\* since the last such chunk; a failure of a stage that runs after a chunk
\* was read (wake.detect, the acknowledgement, the capture, STT and the
\* later stages) makes it 1, is followed by a backoff of 2 s and a return to
\* the top of the loop, never by giving up; the loop gives up only at a
\* failure of audio.stream that is the max_errors-th failure with no chunk
\* in between.
CounterCountsSinceChunk ==
    /\ [](consecutive_errors = failRun)
    /\ [](gaveUp => failRun = max_errors)
    /\ [][(gaveUp' /\ ~gaveUp)
            => (pc = "wake_next" /\ consecutive_errors = max_errors - 1)]_vars
    /\ [][(pc = "wake_next" /\ pc' = "wake_running") => consecutive_errors' = 0]_vars
    /\ [][(consecutive_errors' < consecutive_errors)
            => (pc = "wake_next" /\ pc' = "wake_running")]_vars
    /\ [][(consecutive_errors' > consecutive_errors /\ pc # "wake_next")
            => /\ consecutive_errors' = 1
               /\ backoffs' = Append(backoffs, 2)
               /\ ~gaveUp'
               /\ pc' = "loop_top"]_vars

CounterCountsWitness ==
    /\ pc = "loop_top"
    /\ raisedStage = "stt"
    /\ consecutive_errors = 1
    /\ backoffs = <<2>>
    /\ ~gaveUp

====
